---- MODULE Spec2Model ----
(***************************************************************************)
(* Docky: versioned document store (src/src/document_manager.py) and its   *)
(* branch/merge engine (src/src/version_controller.py).                    *)
(*                                                                         *)
(* The store is a directory tree: one directory per document id, one       *)
(* payload file v<n>.<type> per version, one metadata.json per document.   *)
(* The model keeps that tree (dirs, meta, payload), the callers' view      *)
(* (ret: the outcome of the last call) and, for the crash and the          *)
(* two-writer specifications, the position of each writer inside a         *)
(* handler (pc, loc).                                                      *)
(***************************************************************************)
EXTENDS Integers, Sequences, FiniteSets, TLC

(* ------------------------------ bounds --------------------------------- *)
MaxDocs == 2
MaxVersions == 3
MaxClock == 4
MaxAncLines == 2
MaxNewLines == 2
MaxTextLines == 4
MaxEndedLines == 1
MaxTextVersions == 2
MaxPieces == 3
MaxResolved == 2

Ids == 1..MaxDocs
Versions == 1..MaxVersions

(* ------------------------------ inputs --------------------------------- *)
LF == "\n"
CR == "\r"
\* contents handed to create_document / update_document
Contents == { <<"a">>, <<"a", CR, LF, "b">> }
Names == {"Doc"}
Types == {"txt"}
BranchNames == {"B"}
None == -1
\* version arguments: omitted (None), in range, 0 and one past the end
VersionArgs == {None} \cup (0..(MaxVersions + 1))
FileNames == Versions \X Types

(* --------------------------- text-mode file I/O ------------------------ *)
\* os.linesep of the platform the store runs on
LineSep == <<LF>>

RECURSIVE TextWrite(_)
\* f.write(content) on a file opened with open(path, 'w'): newline=None
\* writes every "\n" as os.linesep
TextWrite(s) ==
    IF s = <<>> THEN <<>>
    ELSE (IF Head(s) = LF THEN LineSep ELSE <<Head(s)>>) \o TextWrite(Tail(s))

RECURSIVE TextRead(_)
\* f.read() on a file opened with open(path, 'r'): newline=None turns
\* "\r\n" and a lone "\r" into "\n" (universal newlines)
TextRead(b) ==
    IF b = <<>> THEN <<>>
    ELSE IF Head(b) = CR
         THEN IF Len(b) >= 2 /\ b[2] = LF
              THEN <<LF>> \o TextRead(Tail(Tail(b)))
              ELSE <<LF>> \o TextRead(Tail(b))
         ELSE <<Head(b)>> \o TextRead(Tail(b))

(* ------------------------------ files ---------------------------------- *)
NoFile == [exists |-> FALSE, data |-> <<>>]
File(bytes) == [exists |-> TRUE, data |-> bytes]

\* metadata.json: absent, empty (just truncated by open(..., 'w')), a
\* complete JSON document, or the bytes of one document followed by the
\* tail of a longer one that was there before (an in-place overwrite)
NoRec == [name |-> "", type |-> "", created_at |-> 0, updated_at |-> 0,
          version_count |-> 0, current_version |-> 0, versions |-> <<>>,
          has_branched_from |-> FALSE,
          branched_from |-> [doc_id |-> 0, version |-> 0, name |-> ""]]
NoMeta == [kind |-> "nofile", rec |-> NoRec, size |-> 0]
EmptyMeta == [kind |-> "empty", rec |-> NoRec, size |-> 0]

\* length of json.dump(rec, indent=2): grows with every version record and
\* with the branched_from entry; the other fields keep their width
JsonSize(rec) == Len(rec.versions) + (IF rec.has_branched_from THEN 1 ELSE 0)

JsonFile(rec) == [kind |-> "json", rec |-> rec, size |-> JsonSize(rec)]
TornMeta(rec, size) == [kind |-> "torn", rec |-> rec, size |-> size]

\* open(path, 'w'): creates the file or truncates it to length 0
OpenTruncMeta(m, d) == [m EXCEPT ![d] = EmptyMeta]

\* the buffered text of json.dump reaches the file when the with-block
\* closes it: written at offset 0, bytes already beyond its end stay
FlushMeta(m, d, rec) ==
    [m EXCEPT ![d] = IF m[d].size > JsonSize(rec)
                     THEN TornMeta(rec, m[d].size)
                     ELSE JsonFile(rec)]

\* with open(metadata_path, 'w') as f: json.dump(metadata, f, indent=2)
DumpMeta(m, d, rec) == FlushMeta(OpenTruncMeta(m, d), d, rec)

OpenTruncPayload(p, d, fn) == [p EXCEPT ![d][fn] = File(<<>>)]

FlushPayload(p, d, fn, content) ==
    LET new == TextWrite(content)
        old == p[d][fn].data
    IN [p EXCEPT ![d][fn] =
            File(IF Len(old) > Len(new)
                 THEN new \o SubSeq(old, Len(new) + 1, Len(old))
                 ELSE new)]

\* with open(version_path, 'w') as f: f.write(content)
WritePayload(p, d, fn, content) == FlushPayload(OpenTruncPayload(p, d, fn), d, fn, content)

(* ------------------------------- state --------------------------------- *)
VARIABLES dirs, meta, payload, allocated, clock, ret, written, pc, loc

vars == <<dirs, meta, payload, allocated, clock, ret, written, pc, loc>>
store == <<dirs, meta, payload>>

Writers == {1, 2}
\* a writer's local variables inside a handler
NoLoc == [op |-> "none", doc |-> 0, content |-> <<>>, version |-> None,
          old |-> NoRec, rec |-> NoRec, new_version |-> 0,
          src |-> 0, src_meta |-> NoRec]
\* outcome of the last call: exception raised (exc) or value returned;
\* NoRet while a step-wise call is running
NoRet == [op |-> "none", doc |-> 0, version |-> None, exc |-> "", val |-> 0,
          content |-> <<>>, metadata |-> NoRec, at |-> "", docs |-> <<>>,
          src |-> 0, conflicts |-> <<>>, mode |-> "",
          version2 |-> None, spans |-> <<>>, hunks |-> <<>>,
          arg |-> <<>>, resolution |-> <<>>, html |-> <<>>,
          before |-> <<>>]

Init ==
    /\ dirs = {}
    /\ meta = [d \in Ids |-> NoMeta]
    /\ payload = [d \in Ids |-> [fn \in FileNames |-> NoFile]]
    /\ allocated = {}
    /\ clock = 1
    /\ ret = NoRet
    /\ written = [d \in Ids |-> <<>>]
    /\ pc = [w \in Writers |-> "idle"]
    /\ loc = [w \in Writers |-> NoLoc]

(* ------------------------ DocumentManager (whole calls) ---------------- *)
PayloadAt(p, d, fn) == IF fn \in FileNames THEN p[d][fn] ELSE NoFile

\* with open(metadata_path, 'r') as f: metadata = json.load(f)
LoadMetaExc(m, d) ==
    IF m[d].kind = "nofile" THEN "FileNotFoundError"
    ELSE IF m[d].kind = "json" THEN ""
    ELSE "JSONDecodeError"

Raise(op, d, version, exc) ==
    [NoRet EXCEPT !.op = op, !.doc = d, !.version = version, !.exc = exc]
Return(op, d, version, val) ==
    [NoRet EXCEPT !.op = op, !.doc = d, !.version = version, !.val = val]

InitialMetadata(name, doc_type, now) ==
    [NoRec EXCEPT !.name = name, !.type = doc_type,
                  !.created_at = now, !.updated_at = now,
                  !.version_count = 1, !.current_version = 1,
                  !.versions = << [version |-> 1, timestamp |-> now,
                                   changes |-> "Initial version"] >>]

\* create_document with the id uuid4() produced
CreateDocumentAs(doc_id, content, name, doc_type) ==
    /\ clock <= MaxClock
    /\ dirs' = dirs \cup {doc_id}
    /\ payload' = WritePayload(payload, doc_id, <<1, doc_type>>, content)
    /\ meta' = DumpMeta(meta, doc_id, InitialMetadata(name, doc_type, clock))
    /\ allocated' = allocated \cup {doc_id}
    /\ clock' = clock + 1
    /\ written' = [written EXCEPT ![doc_id] = <<content>>]
    /\ ret' = Return("create_document", doc_id, None, doc_id)
    /\ UNCHANGED <<pc, loc>>

\* uuid.uuid4(): an id no earlier call returned.  Ids are opaque, so the
\* least unused one stands for any of them.
FreshIds == Ids \ allocated
NextId == CHOOSE i \in FreshIds : \A j \in FreshIds : i <= j

CreateDocument ==
    \E content \in Contents, name \in Names, doc_type \in Types :
        /\ FreshIds # {}
        /\ CreateDocumentAs(NextId, content, name, doc_type)

UpdatedMetadataNoRecord(rec, new_version, change_description, now) ==
    [rec EXCEPT !.version_count = new_version,
                !.current_version = new_version,
                !.updated_at = now]

UpdatedMetadata(rec, new_version, change_description, now) ==
    [rec EXCEPT !.version_count = new_version,
                !.current_version = new_version,
                !.updated_at = now,
                !.versions = Append(@, [version |-> new_version, timestamp |-> now,
                                        changes |-> change_description])]

NewVersionFromCurrent(rec) == rec.current_version + 1

\* new_version = metadata["version_count"] + 1
NewVersion(rec) == rec.version_count + 1

UpdateDocumentOf(doc_id, content) ==
        IF doc_id \notin dirs
        THEN /\ ret' = Raise("update_document", doc_id, None, "FileNotFoundError")
             /\ UNCHANGED <<store, allocated, clock, written, pc, loc>>
        ELSE IF LoadMetaExc(meta, doc_id) # ""
        THEN /\ ret' = Raise("update_document", doc_id, None, LoadMetaExc(meta, doc_id))
             /\ UNCHANGED <<store, allocated, clock, written, pc, loc>>
        ELSE LET metadata == meta[doc_id].rec
                 new_version == NewVersion(metadata)
             IN /\ clock <= MaxClock
                /\ new_version \in Versions
                /\ payload' = WritePayload(payload, doc_id,
                                           <<new_version, metadata.type>>, content)
                /\ meta' = DumpMeta(meta, doc_id,
                                    UpdatedMetadata(metadata, new_version, "", clock))
                /\ clock' = clock + 1
                /\ written' = [written EXCEPT ![doc_id] = Append(@, content)]
                /\ ret' = Return("update_document", doc_id, None, new_version)
                /\ UNCHANGED <<dirs, allocated, pc, loc>>

UpdateDocument ==
    \E doc_id \in Ids, content \in Contents : UpdateDocumentOf(doc_id, content)

VersionOutOfRangeFromZero(version, rec) == version < 0 \/ version > rec.version_count
VersionOutOfRangePastEnd(version, rec) == version < 1 \/ version > rec.version_count + 1

\* version < 1 or version > metadata["version_count"]
VersionOutOfRange(version, rec) == version < 1 \/ version > rec.version_count

\* get_document as a function of the store: the exception raised or the
\* (content, metadata) pair returned
GetDocumentResult(ds, m, p, doc_id, version) ==
    IF doc_id \notin ds
    THEN Raise("get_document", doc_id, version, "FileNotFoundError")
    ELSE IF LoadMetaExc(m, doc_id) # ""
    THEN Raise("get_document", doc_id, version, LoadMetaExc(m, doc_id))
    ELSE LET metadata == m[doc_id].rec
             v == IF version = None THEN metadata.current_version ELSE version
             f == PayloadAt(p, doc_id, <<v, metadata.type>>)
         IN IF version # None /\ VersionOutOfRange(version, metadata)
            THEN Raise("get_document", doc_id, version, "ValueError")
            ELSE IF ~f.exists
            THEN Raise("get_document", doc_id, version, "FileNotFoundError")
            ELSE [NoRet EXCEPT !.op = "get_document", !.doc = doc_id,
                               !.version = version,
                               !.content = TextRead(f.data),
                               !.metadata = metadata]

GetDocument ==
    \E doc_id \in Ids, version \in VersionArgs :
        /\ ret' = GetDocumentResult(dirs, meta, payload, doc_id, version)
        /\ UNCHANGED <<store, allocated, clock, written, pc, loc>>

RmTreeKeepDir(ds, doc_dir) == ds
RmTreeBaseDir(ds, doc_dir) == {}

\* shutil.rmtree(doc_dir): the directory goes, with everything in it
RmTree(ds, doc_dir) == ds \ {doc_dir}

DeleteDocument ==
    \E doc_id \in Ids :
        IF doc_id \notin dirs
        THEN /\ ret' = Raise("delete_document", doc_id, None, "FileNotFoundError")
             /\ UNCHANGED <<store, allocated, clock, written, pc, loc>>
        ELSE /\ dirs' = RmTree(dirs, doc_id)
             /\ meta' = [meta EXCEPT ![doc_id] = NoMeta]
             /\ payload' = [payload EXCEPT ![doc_id] = [fn \in FileNames |-> NoFile]]
             /\ written' = [written EXCEPT ![doc_id] = <<>>]
             /\ ret' = Return("delete_document", doc_id, None, 1)
             /\ UNCHANGED <<allocated, clock, pc, loc>>

\* os.listdir(base_dir): the document directories in some order
ListDir(ds) ==
    { order \in [1..Cardinality(ds) -> ds] :
          \A i, j \in 1..Cardinality(ds) : order[i] = order[j] => i = j }

SummaryCountFromCurrent(doc_id, rec) ==
    [id |-> doc_id, name |-> rec.name, type |-> rec.type,
     updated_at |-> rec.updated_at,
     version_count |-> rec.current_version,
     current_version |-> rec.current_version]

Summary(doc_id, rec) ==
    [id |-> doc_id, name |-> rec.name, type |-> rec.type,
     updated_at |-> rec.updated_at,
     version_count |-> rec.version_count,
     current_version |-> rec.current_version]

RECURSIVE ListLoop(_, _, _)
\* the for-loop of list_documents over the rest of the listing: a
\* directory without metadata.json is skipped, json.load may raise
ListLoop(m, order, documents) ==
    IF order = <<>>
    THEN [NoRet EXCEPT !.op = "list_documents", !.docs = documents]
    ELSE LET doc_id == Head(order) IN
         IF m[doc_id].kind = "nofile"
         THEN ListLoop(m, Tail(order), documents)
         ELSE IF m[doc_id].kind # "json"
         THEN Raise("list_documents", 0, None, "JSONDecodeError")
         ELSE ListLoop(m, Tail(order),
                       Append(documents, Summary(doc_id, m[doc_id].rec)))

ListDocuments ==
    \E order \in ListDir(dirs) :
        /\ ret' = ListLoop(meta, order, <<>>)
        /\ UNCHANGED <<store, allocated, clock, written, pc, loc>>

SetCurrentMetadataTruncating(rec, version, now) ==
    [rec EXCEPT !.current_version = version, !.version_count = version,
                !.updated_at = now]

\* a rewrite of the metadata that drops the branched_from entry
SetCurrentMetadataUnbranched(rec, version, now) ==
    [rec EXCEPT !.current_version = version, !.updated_at = now,
                !.has_branched_from = FALSE,
                !.branched_from = NoRec.branched_from]

SetCurrentMetadata(rec, version, now) ==
    [rec EXCEPT !.current_version = version, !.updated_at = now]

SetCurrentVersion ==
    \E doc_id \in Ids, version \in VersionArgs \ {None} :
        IF doc_id \notin dirs
        THEN /\ ret' = Raise("set_current_version", doc_id, version, "FileNotFoundError")
             /\ UNCHANGED <<store, allocated, clock, written, pc, loc>>
        ELSE IF LoadMetaExc(meta, doc_id) # ""
        THEN /\ ret' = Raise("set_current_version", doc_id, version,
                             LoadMetaExc(meta, doc_id))
             /\ UNCHANGED <<store, allocated, clock, written, pc, loc>>
        ELSE IF VersionOutOfRange(version, meta[doc_id].rec)
        THEN /\ ret' = Raise("set_current_version", doc_id, version, "ValueError")
             /\ UNCHANGED <<store, allocated, clock, written, pc, loc>>
        ELSE /\ clock <= MaxClock
             /\ meta' = DumpMeta(meta, doc_id,
                                 SetCurrentMetadata(meta[doc_id].rec, version, clock))
             /\ clock' = clock + 1
             /\ ret' = Return("set_current_version", doc_id, version, 1)
             /\ UNCHANGED <<dirs, payload, allocated, written, pc, loc>>

(* ------------------------ VersionController.create_branch -------------- *)
BranchMetadataRawVersion(rec, doc_id, from_version, metadata) ==
    [rec EXCEPT !.has_branched_from = TRUE,
                !.branched_from =
                    [doc_id |-> doc_id, version |-> from_version,
                     name |-> metadata.name]]

BranchMetadata(rec, doc_id, from_version, metadata) ==
    [rec EXCEPT !.has_branched_from = TRUE,
                !.branched_from =
                    [doc_id |-> doc_id,
                     version |-> IF from_version # None /\ from_version # 0
                                 THEN from_version ELSE metadata.current_version,
                     name |-> metadata.name]]

CreateBranchOf(doc_id, branch_name, from_version) ==
        LET got == GetDocumentResult(dirs, meta, payload, doc_id, from_version) IN
        IF got.exc # ""
        THEN /\ ret' = [got EXCEPT !.op = "create_branch"]
             /\ UNCHANGED <<store, allocated, clock, written, pc, loc>>
        ELSE LET new_doc_id == NextId
                 metadata == got.metadata
                 branch_name_full == metadata.name \o " - " \o branch_name
                 created == InitialMetadata(branch_name_full, metadata.type, clock)
             IN /\ FreshIds # {}
                /\ clock <= MaxClock
                /\ dirs' = dirs \cup {new_doc_id}
                /\ payload' = WritePayload(payload, new_doc_id,
                                           <<1, metadata.type>>, got.content)
                /\ meta' = DumpMeta(DumpMeta(meta, new_doc_id, created), new_doc_id,
                                    BranchMetadata(created, doc_id, from_version, metadata))
                /\ allocated' = allocated \cup {new_doc_id}
                /\ clock' = clock + 1
                /\ written' = [written EXCEPT ![new_doc_id] = <<got.content>>]
                /\ ret' = Return("create_branch", doc_id, from_version, new_doc_id)
                /\ UNCHANGED <<pc, loc>>

CreateBranch ==
    \E doc_id \in Ids, branch_name \in BranchNames, from_version \in VersionArgs :
        CreateBranchOf(doc_id, branch_name, from_version)

(* ------------------- handlers step by step (one writer w) -------------- *)
\* Each handler below is the same code as the whole call above, cut at its
\* file-system calls: open(..., 'w') creates or truncates the file, leaving
\* the with-block flushes the buffered text into it.
Goto(w, label) == pc' = [pc EXCEPT ![w] = label]
Done(w) == /\ pc' = [pc EXCEPT ![w] = "idle"]
           /\ loc' = [loc EXCEPT ![w] = NoLoc]

\* update_document: existence check, json.load, new_version
BeginUpdate(w) ==
    /\ pc[w] = "idle"
    /\ \E doc_id \in Ids, content \in Contents :
        IF doc_id \notin dirs
        THEN /\ ret' = Raise("update_document", doc_id, None, "FileNotFoundError")
             /\ UNCHANGED <<store, allocated, clock, written, pc, loc>>
        ELSE IF LoadMetaExc(meta, doc_id) # ""
        THEN /\ ret' = Raise("update_document", doc_id, None, LoadMetaExc(meta, doc_id))
             /\ UNCHANGED <<store, allocated, clock, written, pc, loc>>
        ELSE /\ clock <= MaxClock
             /\ NewVersion(meta[doc_id].rec) \in Versions
             /\ loc' = [loc EXCEPT ![w] =
                    [NoLoc EXCEPT !.op = "update_document", !.doc = doc_id,
                                  !.content = content,
                                  !.old = meta[doc_id].rec,
                                  !.rec = meta[doc_id].rec,
                                  !.new_version = NewVersion(meta[doc_id].rec)]]
             /\ Goto(w, "upd_open_payload")
             /\ ret' = NoRet
             /\ UNCHANGED <<store, allocated, clock, written>>

UpdOpenPayload(w) ==
    /\ pc[w] = "upd_open_payload"
    /\ payload' = OpenTruncPayload(payload, loc[w].doc,
                                   <<loc[w].new_version, loc[w].rec.type>>)
    /\ Goto(w, "upd_close_payload")
    /\ UNCHANGED <<dirs, meta, allocated, clock, written, ret, loc>>

\* the payload is flushed, then the metadata dict is updated in memory
UpdClosePayload(w) ==
    /\ pc[w] = "upd_close_payload"
    /\ payload' = FlushPayload(payload, loc[w].doc,
                               <<loc[w].new_version, loc[w].rec.type>>, loc[w].content)
    /\ loc' = [loc EXCEPT ![w].rec =
                   UpdatedMetadata(@, loc[w].new_version, "", clock)]
    /\ clock' = clock + 1
    /\ Goto(w, "upd_open_meta")
    /\ UNCHANGED <<dirs, meta, allocated, written, ret>>

UpdOpenMeta(w) ==
    /\ pc[w] = "upd_open_meta"
    /\ meta' = OpenTruncMeta(meta, loc[w].doc)
    /\ Goto(w, "upd_close_meta")
    /\ UNCHANGED <<dirs, payload, allocated, clock, written, ret, loc>>

UpdCloseMeta(w) ==
    /\ pc[w] = "upd_close_meta"
    /\ meta' = FlushMeta(meta, loc[w].doc, loc[w].rec)
    /\ written' = [written EXCEPT ![loc[w].doc] = Append(@, loc[w].content)]
    /\ ret' = Return("update_document", loc[w].doc, None, loc[w].new_version)
    /\ Done(w)
    /\ UNCHANGED <<dirs, payload, allocated, clock>>

\* set_current_version: existence check, json.load, range check, in-memory update
BeginSetCurrent(w) ==
    /\ pc[w] = "idle"
    /\ \E doc_id \in Ids, version \in VersionArgs \ {None} :
        IF doc_id \notin dirs
        THEN /\ ret' = Raise("set_current_version", doc_id, version, "FileNotFoundError")
             /\ UNCHANGED <<store, allocated, clock, written, pc, loc>>
        ELSE IF LoadMetaExc(meta, doc_id) # ""
        THEN /\ ret' = Raise("set_current_version", doc_id, version,
                             LoadMetaExc(meta, doc_id))
             /\ UNCHANGED <<store, allocated, clock, written, pc, loc>>
        ELSE IF VersionOutOfRange(version, meta[doc_id].rec)
        THEN /\ ret' = Raise("set_current_version", doc_id, version, "ValueError")
             /\ UNCHANGED <<store, allocated, clock, written, pc, loc>>
        ELSE /\ clock <= MaxClock
             /\ loc' = [loc EXCEPT ![w] =
                    [NoLoc EXCEPT !.op = "set_current_version", !.doc = doc_id,
                                  !.version = version,
                                  !.old = meta[doc_id].rec,
                                  !.rec = SetCurrentMetadata(meta[doc_id].rec,
                                                             version, clock)]]
             /\ clock' = clock + 1
             /\ Goto(w, "set_open_meta")
             /\ ret' = NoRet
             /\ UNCHANGED <<store, allocated, written>>

SetOpenMeta(w) ==
    /\ pc[w] = "set_open_meta"
    /\ meta' = OpenTruncMeta(meta, loc[w].doc)
    /\ Goto(w, "set_close_meta")
    /\ UNCHANGED <<dirs, payload, allocated, clock, written, ret, loc>>

SetCloseMeta(w) ==
    /\ pc[w] = "set_close_meta"
    /\ meta' = FlushMeta(meta, loc[w].doc, loc[w].rec)
    /\ ret' = Return("set_current_version", loc[w].doc, loc[w].version, 1)
    /\ Done(w)
    /\ UNCHANGED <<dirs, payload, allocated, clock, written>>

\* create_document up to os.makedirs, entered from the caller (op) with
\* the id uuid4() produced
EnterCreate(w, op, doc_id, content, name, doc_type, src, version, src_meta) ==
    /\ clock <= MaxClock
    /\ dirs' = dirs \cup {doc_id}
    /\ allocated' = allocated \cup {doc_id}
    /\ loc' = [loc EXCEPT ![w] =
           [NoLoc EXCEPT !.op = op, !.doc = doc_id, !.content = content,
                         !.rec = InitialMetadata(name, doc_type, clock),
                         !.src = src, !.version = version, !.src_meta = src_meta]]
    /\ clock' = clock + 1
    /\ Goto(w, "crt_open_payload")
    /\ ret' = NoRet
    /\ UNCHANGED <<meta, payload, written>>

BeginCreate(w) ==
    /\ pc[w] = "idle"
    /\ FreshIds # {}
    /\ \E content \in Contents, name \in Names, doc_type \in Types :
        EnterCreate(w, "create_document", NextId, content, name, doc_type,
                    0, None, NoRec)

CrtOpenPayload(w) ==
    /\ pc[w] = "crt_open_payload"
    /\ payload' = OpenTruncPayload(payload, loc[w].doc, <<1, loc[w].rec.type>>)
    /\ Goto(w, "crt_close_payload")
    /\ UNCHANGED <<dirs, meta, allocated, clock, written, ret, loc>>

CrtClosePayload(w) ==
    /\ pc[w] = "crt_close_payload"
    /\ payload' = FlushPayload(payload, loc[w].doc, <<1, loc[w].rec.type>>,
                               loc[w].content)
    /\ Goto(w, "crt_open_meta")
    /\ UNCHANGED <<dirs, meta, allocated, clock, written, ret, loc>>

CrtOpenMeta(w) ==
    /\ pc[w] = "crt_open_meta"
    /\ meta' = OpenTruncMeta(meta, loc[w].doc)
    /\ Goto(w, "crt_close_meta")
    /\ UNCHANGED <<dirs, payload, allocated, clock, written, ret, loc>>

\* create_document returns: to its caller, or into create_branch
CrtCloseMeta(w) ==
    /\ pc[w] = "crt_close_meta"
    /\ meta' = FlushMeta(meta, loc[w].doc, loc[w].rec)
    /\ written' = [written EXCEPT ![loc[w].doc] = <<loc[w].content>>]
    /\ IF loc[w].op = "create_branch"
       THEN /\ Goto(w, "br_load")
            /\ UNCHANGED <<ret, loc>>
       ELSE /\ ret' = Return("create_document", loc[w].doc, None, loc[w].doc)
            /\ Done(w)
    /\ UNCHANGED <<dirs, payload, allocated, clock>>

\* create_branch: get_document of the source, then create_document
BeginBranch(w) ==
    /\ pc[w] = "idle"
    /\ \E doc_id \in Ids, branch_name \in BranchNames, from_version \in VersionArgs :
        LET got == GetDocumentResult(dirs, meta, payload, doc_id, from_version) IN
        IF got.exc # ""
        THEN /\ ret' = [got EXCEPT !.op = "create_branch"]
             /\ UNCHANGED <<store, allocated, clock, written, pc, loc>>
        ELSE /\ FreshIds # {}
             /\ EnterCreate(w, "create_branch", NextId, got.content,
                            got.metadata.name \o " - " \o branch_name,
                            got.metadata.type, doc_id, from_version, got.metadata)

\* create_branch reads the new document's metadata back and adds branched_from
BrLoad(w) ==
    /\ pc[w] = "br_load"
    /\ IF LoadMetaExc(meta, loc[w].doc) # ""
       THEN /\ ret' = Raise("create_branch", loc[w].src, loc[w].version,
                            LoadMetaExc(meta, loc[w].doc))
            /\ Done(w)
       ELSE /\ loc' = [loc EXCEPT ![w].old = meta[loc[w].doc].rec,
                                  ![w].rec = BranchMetadata(meta[loc[w].doc].rec,
                                                 loc[w].src, loc[w].version,
                                                 loc[w].src_meta)]
            /\ Goto(w, "br_open_meta")
            /\ UNCHANGED ret
    /\ UNCHANGED <<store, allocated, clock, written>>

BrOpenMeta(w) ==
    /\ pc[w] = "br_open_meta"
    /\ meta' = OpenTruncMeta(meta, loc[w].doc)
    /\ Goto(w, "br_close_meta")
    /\ UNCHANGED <<dirs, payload, allocated, clock, written, ret, loc>>

BrCloseMeta(w) ==
    /\ pc[w] = "br_close_meta"
    /\ meta' = FlushMeta(meta, loc[w].doc, loc[w].rec)
    /\ ret' = Return("create_branch", loc[w].src, loc[w].version, loc[w].doc)
    /\ Done(w)
    /\ UNCHANGED <<dirs, payload, allocated, clock, written>>

\* the process dies (or the medium fails) between two steps of a handler:
\* what is on disk stays, what was in memory is lost
Crash(w) ==
    /\ pc[w] # "idle"
    /\ ret' = [NoRet EXCEPT !.op = loc[w].op, !.doc = loc[w].doc, !.exc = "Crash",
                            !.at = pc[w], !.metadata = loc[w].old]
    /\ Done(w)
    /\ UNCHANGED <<store, allocated, clock, written>>

UpdateSteps(w) ==
    \/ BeginUpdate(w)
    \/ UpdOpenPayload(w)
    \/ UpdClosePayload(w)
    \/ UpdOpenMeta(w)
    \/ UpdCloseMeta(w)

SetCurrentSteps(w) ==
    \/ BeginSetCurrent(w)
    \/ SetOpenMeta(w)
    \/ SetCloseMeta(w)

CreateSteps(w) ==
    \/ BeginCreate(w)
    \/ CrtOpenPayload(w)
    \/ CrtClosePayload(w)
    \/ CrtOpenMeta(w)
    \/ CrtCloseMeta(w)

BranchSteps(w) ==
    \/ BeginBranch(w)
    \/ BrLoad(w)
    \/ BrOpenMeta(w)
    \/ BrCloseMeta(w)

\* one process, which may die inside any handler and be started again
NextCrash ==
    \/ CreateSteps(1)
    \/ UpdateSteps(1)
    \/ SetCurrentSteps(1)
    \/ BranchSteps(1)
    \/ Crash(1)

SpecCrash == Init /\ [][NextCrash]_vars

\* two writers on one store, no lock (the engine provides none)
NextConc ==
    \/ (CreateDocument /\ \A w \in Writers : pc[w] = "idle")
    \/ \E w \in Writers : UpdateSteps(w)
    \/ \E w \in Writers : SetCurrentSteps(w)

SpecConc == Init /\ [][NextConc]_vars

\* uuid4() returns an id that is already in use
CreateDocumentColliding ==
    \E doc_id \in dirs, content \in Contents, name \in Names, doc_type \in Types :
        CreateDocumentAs(doc_id, content, name, doc_type)

NextCollide ==
    \/ CreateDocument
    \/ CreateDocumentColliding
    \/ UpdateDocument
    \/ SetCurrentVersion
    \/ GetDocument

SpecCollide == Init /\ [][NextCollide]_vars

(* ------------------------------ difflib -------------------------------- *)
\* Sequences are indexed as in the source: positions 0..len-1, ranges
\* [lo, hi).  No junk test is given (SequenceMatcher(None, ...), Differ()),
\* and the sequences compared stay far below the 200 elements at which the
\* "popular element" heuristic starts.
At(a, i) == a[i + 1]
Slice(a, lo, hi) == SubSeq(a, lo + 1, hi)

RECURSIVE RunLen(_, _, _, _, _, _)
\* j2len of find_longest_match: length of the longest common run that ends
\* with a[i] and b[j] and starts at or after (alo, blo)
RunLen(a, b, i, j, alo, blo) ==
    IF i < alo \/ j < blo THEN 0
    ELSE IF At(a, i) # At(b, j) THEN 0
    ELSE 1 + RunLen(a, b, i - 1, j - 1, alo, blo)

SetMax(S) == CHOOSE x \in S : \A y \in S : y <= x

\* the pairs (i, j) of the two ranges at which a common run ends
MatchEnds(a, b, alo, ahi, blo, bhi) ==
    { p \in (alo..(ahi - 1)) \X (blo..(bhi - 1)) : At(a, p[1]) = At(b, p[2]) }

\* of the runs of length bestsize, the one that starts first in a and, among
\* those, first in b
FirstLongest(longest, bestsize) ==
    LET best == CHOOSE p \in longest :
                    \A q \in longest : p[1] < q[1] \/ (p[1] = q[1] /\ p[2] <= q[2])
    IN [i |-> best[1] - bestsize + 1, j |-> best[2] - bestsize + 1, k |-> bestsize]

LongestOf(a, b, alo, blo, ends, bestsize) ==
    FirstLongest({ p \in ends : RunLen(a, b, p[1], p[2], alo, blo) = bestsize }, bestsize)

\* SequenceMatcher.find_longest_match(alo, ahi, blo, bhi) as Match(i, j, k)
LongestAmong(a, b, alo, blo, ends) ==
    IF ends = {} THEN [i |-> alo, j |-> blo, k |-> 0]
    ELSE LongestOf(a, b, alo, blo, ends,
                   SetMax({ RunLen(a, b, p[1], p[2], alo, blo) : p \in ends }))

FindLongestMatch(a, b, alo, ahi, blo, bhi) ==
    LongestAmong(a, b, alo, blo, MatchEnds(a, b, alo, ahi, blo, bhi))

RECURSIVE BlocksIn(_, _, _, _, _, _)
RECURSIVE BlocksAround(_, _, _, _, _, _, _)
\* get_matching_blocks: the longest match of the range, then the same to
\* its left and to its right
BlocksAround(a, b, alo, ahi, blo, bhi, x) ==
    IF x.k = 0 THEN <<>>
    ELSE (IF alo < x.i /\ blo < x.j
          THEN BlocksIn(a, b, alo, x.i, blo, x.j) ELSE <<>>)
         \o <<x>>
         \o (IF x.i + x.k < ahi /\ x.j + x.k < bhi
             THEN BlocksIn(a, b, x.i + x.k, ahi, x.j + x.k, bhi) ELSE <<>>)

BlocksIn(a, b, alo, ahi, blo, bhi) ==
    BlocksAround(a, b, alo, ahi, blo, bhi, FindLongestMatch(a, b, alo, ahi, blo, bhi))

RECURSIVE Collapse(_, _, _)
\* adjacent equal blocks are merged into one
Collapse(blocks, cur, out) ==
    IF blocks = <<>>
    THEN IF cur.k # 0 THEN Append(out, cur) ELSE out
    ELSE LET nxt == Head(blocks) IN
         IF cur.i + cur.k = nxt.i /\ cur.j + cur.k = nxt.j
         THEN Collapse(Tail(blocks), [cur EXCEPT !.k = cur.k + nxt.k], out)
         ELSE Collapse(Tail(blocks), nxt,
                       IF cur.k # 0 THEN Append(out, cur) ELSE out)

\* SequenceMatcher.get_matching_blocks, with the closing (la, lb, 0) block
GetMatchingBlocks(a, b) ==
    Append(Collapse(BlocksIn(a, b, 0, Len(a), 0, Len(b)),
                    [i |-> 0, j |-> 0, k |-> 0], <<>>),
           [i |-> Len(a), j |-> Len(b), k |-> 0])

RECURSIVE OpcodesFrom(_, _, _)
OpcodesFrom(blocks, i, j) ==
    IF blocks = <<>> THEN <<>>
    ELSE LET m == Head(blocks)
             tag == IF i < m.i /\ j < m.j THEN "replace"
                    ELSE IF i < m.i THEN "delete"
                    ELSE IF j < m.j THEN "insert"
                    ELSE ""
         IN (IF tag # ""
             THEN << [tag |-> tag, i1 |-> i, i2 |-> m.i, j1 |-> j, j2 |-> m.j] >>
             ELSE <<>>)
            \o (IF m.k # 0
                THEN << [tag |-> "equal", i1 |-> m.i, i2 |-> m.i + m.k,
                         j1 |-> m.j, j2 |-> m.j + m.k] >>
                ELSE <<>>)
            \o OpcodesFrom(Tail(blocks), m.i + m.k, m.j + m.k)

\* SequenceMatcher.get_opcodes
GetOpcodes(a, b) == OpcodesFrom(GetMatchingBlocks(a, b), 0, 0)

\* SequenceMatcher.ratio() as the fraction 2 * matches / (len(a) + len(b))
RECURSIVE SumSizes(_)
SumSizes(blocks) == IF blocks = <<>> THEN 0 ELSE Head(blocks).k + SumSizes(Tail(blocks))
Ratio(a, b) == [num |-> 2 * SumSizes(GetMatchingBlocks(a, b)), den |-> Len(a) + Len(b)]
RatioGreater(r, s) == r.num * s.den > s.num * r.den

\* a line of Differ.compare: the two-character code ("- ", "+ ", "  ",
\* "? ") and the text after it
DiffLine(tag, text) == [tag |-> tag, text |-> text]

\* Differ._dump
Dump(tag, x, lo, hi) == [n \in 1..(hi - lo) |-> DiffLine(tag, At(x, lo + n - 1))]

\* Differ._plain_replace: the shorter block first
PlainReplace(a, alo, ahi, b, blo, bhi) ==
    IF bhi - blo < ahi - alo
    THEN Dump("+", b, blo, bhi) \o Dump("-", a, alo, ahi)
    ELSE Dump("-", a, alo, ahi) \o Dump("+", b, blo, bhi)

IsSpace(c) == c \in {" ", "\t", LF, CR}

RECURSIVE RStrip(_)
RStrip(s) == IF s = <<>> THEN <<>>
             ELSE IF IsSpace(s[Len(s)]) THEN RStrip(SubSeq(s, 1, Len(s) - 1))
             ELSE s

\* _keep_original_ws
KeepOriginalWs(s, tag_s) ==
    [n \in 1..(IF Len(s) < Len(tag_s) THEN Len(s) ELSE Len(tag_s)) |->
        IF tag_s[n] = " " /\ IsSpace(s[n]) THEN s[n] ELSE tag_s[n]]

Repeat(c, n) == [m \in 1..n |-> c]

RECURSIVE TagsFrom(_, _)
\* the intraline marks of _fancy_replace for one side ("a" or "b")
TagsFrom(opcodes, side) ==
    IF opcodes = <<>> THEN <<>>
    ELSE LET o == Head(opcodes)
             la == o.i2 - o.i1
             lb == o.j2 - o.j1
             mine == IF side = "a" THEN la ELSE lb
         IN (IF o.tag = "replace" THEN Repeat("^", mine)
             ELSE IF o.tag = "delete" THEN (IF side = "a" THEN Repeat("-", la) ELSE <<>>)
             ELSE IF o.tag = "insert" THEN (IF side = "b" THEN Repeat("+", lb) ELSE <<>>)
             ELSE Repeat(" ", mine))
            \o TagsFrom(Tail(opcodes), side)

\* Differ._qformat
QFormat(aline, bline, atags, btags) ==
    LET at == RStrip(KeepOriginalWs(aline, atags))
        bt == RStrip(KeepOriginalWs(bline, btags))
    IN <<DiffLine("-", aline)>>
       \o (IF at # <<>> THEN <<DiffLine("?", at \o <<LF>>)>> ELSE <<>>)
       \o <<DiffLine("+", bline)>>
       \o (IF bt # <<>> THEN <<DiffLine("?", bt \o <<LF>>)>> ELSE <<>>)

\* position of the pair (i, j) in the search order of _fancy_replace:
\* j in the outer loop, i in the inner one
SearchBefore(p, q) == p[2] < q[2] \/ (p[2] = q[2] /\ p[1] <= q[1])

NoPair == <<None, None>>
FirstPair(S) == IF S = {} THEN NoPair ELSE CHOOSE p \in S : \A q \in S : SearchBefore(p, q)

LinePairs(alo, ahi, blo, bhi) == (alo..(ahi - 1)) \X (blo..(bhi - 1))

\* eqi, eqj: the first pair of identical lines
EqualPair(a, alo, ahi, b, blo, bhi) ==
    FirstPair({ p \in LinePairs(alo, ahi, blo, bhi) : At(a, p[1]) = At(b, p[2]) })

\* the pairs of different lines whose ratio is above the initial best_ratio
ClosePairs(a, alo, ahi, b, blo, bhi) ==
    { p \in LinePairs(alo, ahi, blo, bhi) :
          /\ At(a, p[1]) # At(b, p[2])
          /\ RatioGreater(Ratio(At(a, p[1]), At(b, p[2])), [num |-> 74, den |-> 100]) }

\* best_i, best_j: the first pair of the highest ratio (a later pair
\* replaces the best one only when its ratio is strictly greater)
BestPair(a, b, close) ==
    FirstPair({ p \in close :
                    \A q \in close :
                        ~RatioGreater(Ratio(At(a, q[1]), At(b, q[2])),
                                      Ratio(At(a, p[1]), At(b, p[2]))) })

\* best_ratio < cutoff
BelowCutoff(a, b, best) ==
    \/ best = NoPair
    \/ RatioGreater([num |-> 75, den |-> 100], Ratio(At(a, best[1]), At(b, best[2])))

\* the intraline marks of the synch pair and its four lines
IntralineOf(aelt, belt, opcodes) ==
    QFormat(aelt, belt, TagsFrom(opcodes, "a"), TagsFrom(opcodes, "b"))

Intraline(aelt, belt) == IntralineOf(aelt, belt, GetOpcodes(aelt, belt))

RECURSIVE FancyReplace(_, _, _, _, _, _)
RECURSIVE FancyHelper(_, _, _, _, _, _)
RECURSIVE FancySplit(_, _, _, _, _, _, _, _, _)
RECURSIVE FancySync(_, _, _, _, _, _, _, _)

\* Differ._fancy_helper
FancyHelper(a, alo, ahi, b, blo, bhi) ==
    IF alo < ahi
    THEN IF blo < bhi THEN FancyReplace(a, alo, ahi, b, blo, bhi)
         ELSE Dump("-", a, alo, ahi)
    ELSE IF blo < bhi THEN Dump("+", b, blo, bhi)
    ELSE <<>>

\* what is before the synch pair, the pair, what is after it
FancySplit(a, alo, ahi, b, blo, bhi, best_i, best_j, middle) ==
    FancyHelper(a, alo, best_i, b, blo, best_j)
    \o middle
    \o FancyHelper(a, best_i + 1, ahi, b, best_j + 1, bhi)

\* no pair of ratio 0.75 or more: synch on the first identical pair, or
\* a plain replace when there is none
FancySync(a, alo, ahi, b, blo, bhi, best, eq) ==
    IF BelowCutoff(a, b, best)
    THEN IF eq = NoPair
         THEN PlainReplace(a, alo, ahi, b, blo, bhi)
         ELSE FancySplit(a, alo, ahi, b, blo, bhi, eq[1], eq[2],
                         <<DiffLine(" ", At(a, eq[1]))>>)
    ELSE FancySplit(a, alo, ahi, b, blo, bhi, best[1], best[2],
                    Intraline(At(a, best[1]), At(b, best[2])))

\* Differ._fancy_replace
FancyReplace(a, alo, ahi, b, blo, bhi) ==
    FancySync(a, alo, ahi, b, blo, bhi,
              BestPair(a, b, ClosePairs(a, alo, ahi, b, blo, bhi)),
              EqualPair(a, alo, ahi, b, blo, bhi))

RECURSIVE CompareOps(_, _, _)
CompareOps(a, b, opcodes) ==
    IF opcodes = <<>> THEN <<>>
    ELSE LET o == Head(opcodes) IN
         (IF o.tag = "replace" THEN FancyReplace(a, o.i1, o.i2, b, o.j1, o.j2)
          ELSE IF o.tag = "delete" THEN Dump("-", a, o.i1, o.i2)
          ELSE IF o.tag = "insert" THEN Dump("+", b, o.j1, o.j2)
          ELSE Dump(" ", a, o.i1, o.i2))
         \o CompareOps(a, b, Tail(opcodes))

\* Differ().compare(a, b) as a list
DifferCompare(a, b) == CompareOps(a, b, GetOpcodes(a, b))

(* ------------------------ VersionController.merge_changes -------------- *)
\* the places of s at which a line ends: "\n" and "\r"
LineEndsIn(s) == { k \in 1..Len(s) : s[k] \in {LF, CR} }
FirstOf(S) == CHOOSE x \in S : \A y \in S : x <= y
\* where the next line starts: "\r\n" ends one line
AfterEnd(s, k) == IF s[k] = CR /\ k < Len(s) /\ s[k + 1] = LF THEN k + 2 ELSE k + 1

RECURSIVE SplitLines(_)
SplitAt(s, k) ==
    <<SubSeq(s, 1, k - 1)>> \o SplitLines(SubSeq(s, AfterEnd(s, k), Len(s)))

\* str.splitlines(): "\n", "\r" and "\r\n" end a line, no empty last line
SplitLines(s) ==
    IF s = <<>> THEN <<>>
    ELSE IF LineEndsIn(s) = {} THEN <<s>>
    ELSE SplitAt(s, FirstOf(LineEndsIn(s)))

RECURSIVE Flatten(_)
\* the concatenation of a sequence of sequences
Flatten(seqs) == IF seqs = <<>> THEN <<>> ELSE Head(seqs) \o Flatten(Tail(seqs))

RECURSIVE Join(_)
\* '\n'.join(lines)
Join(lines) ==
    IF lines = <<>> THEN <<>>
    ELSE IF Len(lines) = 1 THEN lines[1]
    ELSE lines[1] \o <<LF>> \o Join(Tail(lines))

\* the three delimiter lines of a conflict block
TargetMarker == <<"<", "<", "<", "<", "<", "<", "<", " ", "T", "A", "R", "G", "E", "T">>
Separator == <<"=", "=", "=", "=", "=", "=", "=">>
SourceMarker == <<">", ">", ">", ">", ">", ">", ">", " ", "S", "O", "U", "R", "C", "E">>

\* merged_lines and conflicts while the merge loops run
NoMerge == [merged_lines |-> <<>>, conflicts |-> <<>>]
Emit(acc, lines) == [acc EXCEPT !.merged_lines = @ \o lines]

\* one round of the three-way loop, on position i of the two diffs
ThreeWayStep(acc, i, diff_ancestor_target, diff_ancestor_source) ==
    IF i < Len(diff_ancestor_target) /\ i < Len(diff_ancestor_source)
    THEN LET target_line == At(diff_ancestor_target, i)
             source_line == At(diff_ancestor_source, i)
         IN IF target_line = source_line
            THEN IF target_line.tag # "-" THEN Emit(acc, <<target_line.text>>) ELSE acc
            ELSE IF target_line.tag = "+" /\ source_line.tag = " "
            THEN Emit(acc, <<target_line.text>>)
            ELSE IF source_line.tag = "+" /\ target_line.tag = " "
            THEN Emit(acc, <<source_line.text>>)
            ELSE IF target_line.tag = "+" /\ source_line.tag = "+"
            THEN [merged_lines |-> acc.merged_lines
                                     \o <<TargetMarker, target_line.text, Separator,
                                          source_line.text, SourceMarker>>,
                  conflicts |-> Append(acc.conflicts,
                                       [line |-> i, target |-> target_line.text,
                                        source |-> source_line.text])]
            ELSE acc
    ELSE IF i < Len(diff_ancestor_target)
    THEN LET target_line == At(diff_ancestor_target, i)
         IN IF target_line.tag # "-" THEN Emit(acc, <<target_line.text>>) ELSE acc
    ELSE LET source_line == At(diff_ancestor_source, i)
         IN IF source_line.tag # "-" THEN Emit(acc, <<source_line.text>>) ELSE acc

RECURSIVE ThreeWayLoop(_, _, _, _)
\* for i in range(max(len(diff_ancestor_target), len(diff_ancestor_source)))
ThreeWayLoop(acc, i, diff_ancestor_target, diff_ancestor_source) ==
    IF i >= Len(diff_ancestor_target) /\ i >= Len(diff_ancestor_source) THEN acc
    ELSE ThreeWayLoop(ThreeWayStep(acc, i, diff_ancestor_target, diff_ancestor_source),
                      i + 1, diff_ancestor_target, diff_ancestor_source)

ThreeWayMerge(common_ancestor_content, target_lines, source_lines) ==
    ThreeWayLoop(NoMerge, 0,
                 DifferCompare(common_ancestor_content, target_lines),
                 DifferCompare(common_ancestor_content, source_lines))

RECURSIVE TwoWayLoop(_, _, _, _)
\* for tag, i1, i2, j1, j2 in matcher.get_opcodes()
TwoWayLoop(acc, opcodes, target_lines, source_lines) ==
    IF opcodes = <<>> THEN acc
    ELSE LET o == Head(opcodes)
             t == Slice(target_lines, o.i1, o.i2)
             s == Slice(source_lines, o.j1, o.j2)
             nxt == IF o.tag = "equal" THEN Emit(acc, t)
                    ELSE IF o.tag = "replace"
                    THEN [merged_lines |-> acc.merged_lines \o <<TargetMarker>> \o t
                                             \o <<Separator>> \o s \o <<SourceMarker>>,
                          conflicts |-> Append(acc.conflicts,
                                               [line_range |-> <<o.i1, o.i2>>,
                                                target |-> t, source |-> s])]
                    ELSE IF o.tag = "delete" THEN Emit(acc, t)
                    ELSE Emit(acc, s)
         IN TwoWayLoop(nxt, Tail(opcodes), target_lines, source_lines)

IsNotInsert(o) == o.tag # "insert"
TwoWayMergeNoInsert(target_lines, source_lines) ==
    TwoWayLoop(NoMerge, SelectSeq(GetOpcodes(target_lines, source_lines), IsNotInsert),
               target_lines, source_lines)

TwoWayMerge(target_lines, source_lines) ==
    TwoWayLoop(NoMerge, GetOpcodes(target_lines, source_lines), target_lines, source_lines)

\* the branch of line 181 taken (mode) and what it returns
Merged(called, mode, merged) ==
    [called EXCEPT !.content = Join(merged.merged_lines),
                   !.conflicts = merged.conflicts,
                   !.mode = mode]

\* "if common_ancestor_content:" is false for None and for an empty list
MergeLines(called, has_ancestor, common_ancestor_content, target_lines, source_lines) ==
    IF has_ancestor /\ common_ancestor_content # <<>>
    THEN Merged(called, "three-way",
                ThreeWayMerge(common_ancestor_content, target_lines, source_lines))
    ELSE Merged(called, "two-way", TwoWayMerge(target_lines, source_lines))

\* lines 169-175: the ancestor is read when the source's branched_from
\* names the target
MergeWithAncestor(called, has_ancestor, ancestor, target, source) ==
    IF has_ancestor /\ ancestor.exc # ""
    THEN [called EXCEPT !.exc = ancestor.exc]
    ELSE MergeLines(called, has_ancestor, SplitLines(ancestor.content),
                    SplitLines(target.content), SplitLines(source.content))

MergeRead(ds, m, p, called, doc_id, source, target) ==
    IF source.exc # "" THEN [called EXCEPT !.exc = source.exc]
    ELSE IF target.exc # "" THEN [called EXCEPT !.exc = target.exc]
    ELSE MergeWithAncestor(called,
             /\ source.metadata.has_branched_from
             /\ source.metadata.branched_from.doc_id = doc_id,
             GetDocumentResult(ds, m, p, doc_id, source.metadata.branched_from.version),
             target, source)

\* merge_changes as a function of the store: the exception raised or
\* (merged_content, conflicts)
MergeChangesResult(ds, m, p, doc_id, source_doc_id, source_version) ==
    MergeRead(ds, m, p,
              [NoRet EXCEPT !.op = "merge_changes", !.doc = doc_id,
                            !.src = source_doc_id, !.version = source_version],
              doc_id,
              GetDocumentResult(ds, m, p, source_doc_id, source_version),
              GetDocumentResult(ds, m, p, doc_id, None))

MergeChanges ==
    \E doc_id \in Ids, source_doc_id \in Ids, source_version \in VersionArgs :
        /\ ret' = MergeChangesResult(dirs, meta, payload, doc_id, source_doc_id,
                                     source_version)
        /\ UNCHANGED <<store, allocated, clock, written, pc, loc>>

Min(x, y) == IF x < y THEN x ELSE y
Max(x, y) == IF x < y THEN y ELSE x

DecDigits == <<"0", "1", "2", "3", "4", "5", "6", "7", "8", "9">>
RECURSIVE Dec(_)
\* a natural number as an f-string or format() writes it
Dec(n) == IF n < 10 THEN <<DecDigits[n + 1]>>
          ELSE Dec(n \div 10) \o <<DecDigits[(n % 10) + 1]>>

(* ------------------------ VersionController.resolve_conflict ----------- *)
RECURSIVE ScanBlock(_, _, _)
\* the for loop from the line after an opening marker: the last "======="
\* met before the first ">>>>>>> SOURCE", and that closing line
ScanBlock(lines, j, conflict_middle) ==
    IF j >= Len(lines)
    THEN [conflict_middle |-> conflict_middle, conflict_end |-> None]
    ELSE IF At(lines, j) = Separator THEN ScanBlock(lines, j + 1, j)
    ELSE IF At(lines, j) = SourceMarker
    THEN [conflict_middle |-> conflict_middle, conflict_end |-> j]
    ELSE ScanBlock(lines, j + 1, conflict_middle)

\* if conflict_middle and conflict_end
Truthy(x) == x # None /\ x # 0
BlockFound(b) == Truthy(b.conflict_middle) /\ Truthy(b.conflict_end)

\* f"{conflict_start}-{conflict_end}" and f"{conflict_id}_custom"
ConflictId(conflict_start, conflict_end) ==
    Dec(conflict_start) \o <<"-">> \o Dec(conflict_end)
CustomKey(conflict_id) == conflict_id \o <<"_", "c", "u", "s", "t", "o", "m">>

Target == <<"t", "a", "r", "g", "e", "t">>
Source == <<"s", "o", "u", "r", "c", "e">>
Both == <<"b", "o", "t", "h">>
Custom == <<"c", "u", "s", "t", "o", "m">>

\* what a block with a resolution gives, the source lines dropped when
\* both sides are asked for
ChosenTargetOnly(lines, conflict_start, b, choice, resolution) ==
    IF choice \in {Target, Both}
    THEN Slice(lines, conflict_start + 1, b.conflict_middle)
    ELSE IF choice = Source THEN Slice(lines, b.conflict_middle + 1, b.conflict_end)
    ELSE IF choice = Custom
    THEN <<resolution[CustomKey(ConflictId(conflict_start, b.conflict_end))]>>
    ELSE <<>>

\* what a block with a resolution gives; another choice gives nothing
Chosen(lines, conflict_start, b, choice, resolution) ==
    IF choice = Target THEN Slice(lines, conflict_start + 1, b.conflict_middle)
    ELSE IF choice = Source THEN Slice(lines, b.conflict_middle + 1, b.conflict_end)
    ELSE IF choice = Both
    THEN Slice(lines, conflict_start + 1, b.conflict_middle)
         \o Slice(lines, b.conflict_middle + 1, b.conflict_end)
    ELSE IF choice = Custom
    THEN <<resolution[CustomKey(ConflictId(conflict_start, b.conflict_end))]>>
    ELSE <<>>

RECURSIVE ResolveFrom(_, _, _, _)
RECURSIVE ResolveBlock(_, _, _, _, _)
\* the block at conflict_start: replaced, or kept with its markers when its
\* id has no resolution; a custom choice without its text is a KeyError
ResolveBlock(lines, conflict_start, b, resolution, result) ==
    IF ConflictId(conflict_start, b.conflict_end) \notin DOMAIN resolution
    THEN ResolveFrom(lines, b.conflict_end + 1, resolution,
                     result \o Slice(lines, conflict_start, b.conflict_end + 1))
    ELSE IF /\ resolution[ConflictId(conflict_start, b.conflict_end)] = Custom
            /\ CustomKey(ConflictId(conflict_start, b.conflict_end)) \notin DOMAIN resolution
    THEN [exc |-> "KeyError", result |-> <<>>]
    ELSE ResolveFrom(lines, b.conflict_end + 1, resolution,
                     result \o Chosen(lines, conflict_start, b,
                                      resolution[ConflictId(conflict_start, b.conflict_end)],
                                      resolution))

\* the while loop from line i
ResolveFrom(lines, i, resolution, result) ==
    IF i >= Len(lines) THEN [exc |-> "", result |-> result]
    ELSE IF At(lines, i) = TargetMarker /\ BlockFound(ScanBlock(lines, i + 1, None))
    THEN ResolveBlock(lines, i, ScanBlock(lines, i + 1, None), resolution, result)
    ELSE ResolveFrom(lines, i + 1, resolution, Append(result, At(lines, i)))

ResolveEnd(called, r) ==
    IF r.exc # "" THEN [called EXCEPT !.exc = r.exc]
    ELSE [called EXCEPT !.content = Join(r.result)]

\* resolve_conflict: the exception raised or the content returned
ResolveConflictResult(merged_content, resolution) ==
    ResolveEnd([NoRet EXCEPT !.op = "resolve_conflict", !.arg = merged_content,
                             !.resolution = resolution],
               ResolveFrom(SplitLines(merged_content), 0, resolution, <<>>))

\* no resolution at all
NoResolution == <<>>

\* the content a merge has just returned is resolved with no resolution
ResolveMerged ==
    /\ ret.op = "merge_changes" /\ ret.exc = ""
    /\ ret' = ResolveConflictResult(ret.content, NoResolution)
    /\ UNCHANGED <<store, allocated, clock, written, pc, loc>>

(* --------------------------- branch and merge -------------------------- *)
\* Texts for the merge: an ancestor of up to MaxAncLines distinct lines, and
\* edits of it that keep some of its lines in order and put up to
\* MaxNewLines lines of their own anywhere.  The first new line of a side
\* is close to the first ancestor line (ratio 0.8), the others are not.
Digits == <<"1", "2", "3", "4">>
AncLine(i) == <<"l", Digits[i]>>
NewLine(side, k) == IF k = 1 THEN AncLine(1) \o <<side>> ELSE <<side, Digits[k]>>

Ancestors == { [i \in 1..n |-> AncLine(i)] : n \in 0..MaxAncLines }

RECURSIVE Interleavings(_, _)
Interleavings(x, y) ==
    IF x = <<>> THEN {y}
    ELSE IF y = <<>> THEN {x}
    ELSE { <<Head(x)>> \o z : z \in Interleavings(Tail(x), y) }
         \cup { <<Head(y)>> \o z : z \in Interleavings(x, Tail(y)) }

RECURSIVE Keep(_, _, _)
Keep(anc, K, i) ==
    IF i > Len(anc) THEN <<>>
    ELSE (IF i \in K THEN <<anc[i]>> ELSE <<>>) \o Keep(anc, K, i + 1)

Edits(anc, side) ==
    UNION { Interleavings(Keep(anc, K, 1), [k \in 1..n |-> NewLine(side, k)]) :
                K \in SUBSET (1..Len(anc)), n \in 0..MaxNewLines }

IsBranch(d) == d \in dirs /\ meta[d].kind = "json" /\ meta[d].rec.has_branched_from
FirstVersion(d) == SplitLines(GetDocumentResult(dirs, meta, payload, d, 1).content)

\* the original document
MergeCreateDocument ==
    \E anc \in Ancestors, name \in Names, doc_type \in Types :
        /\ allocated = {}
        /\ CreateDocumentAs(NextId, Join(anc), name, doc_type)

\* one branch of it, taken before either side is edited
MergeCreateBranch ==
    \E doc_id \in dirs, branch_name \in BranchNames :
        /\ \A d \in dirs : ~IsBranch(d) /\ meta[d].rec.version_count = 1
        /\ CreateBranchOf(doc_id, branch_name, None)

\* the original is edited once
MergeUpdateTarget ==
    \E doc_id \in dirs :
        /\ ~IsBranch(doc_id)
        /\ \E b \in dirs : IsBranch(b)
        /\ meta[doc_id].rec.version_count = 1
        /\ \E t \in Edits(FirstVersion(doc_id), "t") : UpdateDocumentOf(doc_id, Join(t))

\* the branch is edited once
MergeUpdateSource ==
    \E doc_id \in dirs :
        /\ IsBranch(doc_id)
        /\ meta[doc_id].rec.version_count = 1
        /\ \E s \in Edits(FirstVersion(doc_id), "s") : UpdateDocumentOf(doc_id, Join(s))

NextMerge ==
    \/ MergeCreateDocument
    \/ MergeCreateBranch
    \/ MergeUpdateTarget
    \/ MergeUpdateSource
    \/ MergeChanges
    \/ ResolveMerged

SpecMerge == Init /\ [][NextMerge]_vars


Next ==
    \/ CreateDocument
    \/ UpdateDocument
    \/ GetDocument
    \/ DeleteDocument
    \/ SetCurrentVersion
    \/ CreateBranch
    \/ ListDocuments

Spec == Init /\ [][Next]_vars

(* ------------------------------ properties ----------------------------- *)
Live(d) == d \in dirs /\ meta[d].kind = "json"
Md(d) == meta[d].rec
Read(d, v) == GetDocumentResult(dirs, meta, payload, d, v)
Crashed(op) == ret.exc = "Crash" /\ ret.op = op

\* C1: after create and N successful appends (written[d] holds the 1 + N
\* contents handed in), version_count = 1 + N; the append that has just
\* returned gave 1 + N and left current_version = 1 + N; a document that
\* create has just returned has version_count = current_version = 1.
C1_CountAfterAppends ==
    \A d \in dirs :
        /\ Md(d).version_count = Len(written[d])
        /\ (ret.op = "update_document" /\ ret.exc = "" /\ ret.doc = d)
               => /\ ret.val = Len(written[d])
                  /\ Md(d).current_version = Len(written[d])
        /\ (ret.op = "create_document" /\ ret.doc = d)
               => /\ Md(d).version_count = 1
                  /\ Md(d).current_version = 1

C1_Witness ==
    \E d \in dirs : /\ ret.op = "update_document" /\ ret.exc = "" /\ ret.doc = d
                    /\ ret.val = 3 /\ Len(written[d]) = 3

\* C2: for every live document and every version v of it, get_document(d, v)
\* returns the content that was handed to the create or update call that
\* produced v.
C2_ReadReturnsWritten ==
    \A d \in dirs : \A v \in 1..Md(d).version_count :
        v \in DOMAIN written[d] =>
            /\ Read(d, v).exc = ""
            /\ Read(d, v).content = written[d][v]

\* C3: every live document has 1 <= current_version <= version_count.
C3_CurrentInRange ==
    \A d \in dirs : /\ Live(d)
                    /\ 1 <= Md(d).current_version
                    /\ Md(d).current_version <= Md(d).version_count

C3_Witness ==
    /\ ret.op = "set_current_version" /\ ret.exc = "ValueError"
    /\ ret.doc \in dirs
    /\ Md(ret.doc).current_version < Md(ret.doc).version_count

\* C4: the versions list of a live document holds version_count records
\* numbered 1, 2, ..., version_count in that order, and each of these
\* numbers has its payload file, under the document's type and no other.
C4_ContiguousVersions ==
    \A d \in dirs :
        /\ Len(Md(d).versions) = Md(d).version_count
        /\ \A i \in 1..Len(Md(d).versions) : Md(d).versions[i].version = i
        /\ \A v \in 1..Md(d).version_count : \A t \in Types :
               PayloadAt(payload, d, <<v, t>>).exists <=> (t = Md(d).type)

C4_Witness ==
    \E d \in dirs : /\ Md(d).version_count = 3
                    /\ Md(d).current_version = 1
                    /\ ret.op = "set_current_version" /\ ret.exc = ""

\* C5: when update_document dies between two of its steps, the document is
\* in its committed state: metadata.json is the complete record that was
\* there before, and the payload files are exactly those of versions
\* 1..version_count.
C5_CrashKeepsCommitted ==
    Crashed("update_document") =>
        /\ meta[ret.doc] = JsonFile(ret.metadata)
        /\ \A fn \in FileNames :
               payload[ret.doc][fn].exists =>
                   fn[1] <= ret.metadata.version_count

\* C6: when a metadata update (of update_document, set_current_version or
\* the branched_from step of create_branch) dies between two of its steps,
\* metadata.json is a complete record, never empty or cut short.
C6_MetadataNeverHalfWritten ==
    (\/ Crashed("update_document")
     \/ Crashed("set_current_version")
     \/ (Crashed("create_branch")
            /\ ret.at \in {"br_load", "br_open_meta", "br_close_meta"}))
        => meta[ret.doc].kind = "json"

\* C7: when create_document dies between two of its steps, either the new
\* id has no directory, or it has its version-1 payload and a complete
\* metadata record.
C7_CreateAllOrNothing ==
    Crashed("create_document") =>
        \/ ret.doc \notin dirs
        \/ /\ meta[ret.doc].kind = "json"
           /\ PayloadAt(payload, ret.doc, <<1, Md(ret.doc).type>>).exists

\* C8: when two writers have both finished their interleaved
\* update_document / set_current_version calls, metadata.json of every
\* document is one complete record, not a mixture of two writes.
C8_NoMixedMetadata ==
    (\A w \in Writers : pc[w] = "idle") =>
        \A d \in dirs : meta[d].kind = "json"

\* C9: create_document never returns the id of a document that existed
\* before the call (a colliding id makes it fail instead).
C9_CreateNeverReturnsExisting ==
    [][(clock' # clock /\ ret'.op = "create_document" /\ ret'.exc = "")
           => ret'.val \notin dirs]_vars

\* C10: get_document changes nothing in the store; it raises
\* FileNotFoundError for an unknown id, ValueError for an explicit version
\* below 1 (0 included) or above version_count, and with the version
\* omitted returns what an explicit read of current_version returns.
C10_ReadErrors ==
    [][ret'.op = "get_document" =>
          LET d == ret'.doc
              v == ret'.version
          IN /\ store' = store
             /\ written' = written
             /\ d \notin dirs => ret'.exc = "FileNotFoundError"
             /\ (d \in dirs /\ v # None /\ (v < 1 \/ v > Md(d).version_count))
                    => ret'.exc = "ValueError"
             /\ (d \in dirs /\ v = None)
                    => /\ ret'.exc = ""
                       /\ ret'.content = Read(d, Md(d).current_version).content
                       /\ ret'.metadata = Md(d)]_vars

C10_Witness ==
    /\ ret.op = "get_document" /\ ret.exc = "ValueError" /\ ret.version = 0
    /\ ret.doc \in dirs

\* C11: when a document's directory exists and its metadata.json is missing
\* or unparseable, the error an operation on it raises is neither the
\* not-found error (FileNotFoundError) nor the version-range error
\* (ValueError).
C11_CorruptionIsStorageError ==
    (/\ ret.op \in {"update_document", "set_current_version"}
     /\ ret.exc \notin {"", "Crash"}
     /\ ret.doc \in dirs
     /\ meta[ret.doc].kind # "json")
        => ret.exc \notin {"FileNotFoundError", "ValueError"}

\* C12: a successful set_current_version(d, v) makes the default read
\* return the content of version v and leaves version_count, the versions
\* list and every payload as they were.
C12_SetCurrentOnlyMovesPointer ==
    [][(ret'.op = "set_current_version" /\ ret'.exc = "" /\ clock' # clock) =>
          LET d == ret'.doc
              v == ret'.version
          IN /\ GetDocumentResult(dirs', meta', payload', d, None).exc = ""
             /\ GetDocumentResult(dirs', meta', payload', d, None).content
                    = Read(d, v).content
             /\ meta'[d].kind = "json"
             /\ meta'[d].rec.version_count = Md(d).version_count
             /\ meta'[d].rec.versions = Md(d).versions
             /\ payload' = payload
             /\ dirs' = dirs]_vars

C12_Witness ==
    /\ ret.op = "set_current_version" /\ ret.exc = "" /\ ret.version = 2
    /\ ret.doc \in dirs
    /\ Md(ret.doc).version_count = 3
    /\ Md(ret.doc).current_version = 2

\* C13: set_current_version(d, v) on an existing document with v < 1 or
\* v > version_count raises ValueError and leaves metadata (current_version
\* and updated_at included) and payloads unchanged.
C13_SetCurrentRejectsOutOfRange ==
    [][(/\ ret'.op = "set_current_version"
        /\ Live(ret'.doc)
        /\ (ret'.version < 1 \/ ret'.version > Md(ret'.doc).version_count))
           => /\ ret'.exc = "ValueError"
              /\ store' = store]_vars

C13_Witness ==
    /\ ret.op = "set_current_version" /\ ret.exc = "ValueError"
    /\ ret.doc \in dirs
    /\ ret.version = Md(ret.doc).version_count + 1
    /\ Md(ret.doc).version_count = 2

\* a document that delete_document removed (ids are never handed out twice)
Deleted(d) == d \in allocated /\ written[d] = <<>>

\* C14: once delete_document(d) has succeeded, d has no directory any more,
\* every later get_document, update_document, set_current_version and
\* delete_document on d raises FileNotFoundError, and list_documents does
\* not list d.
C14_DeletedStaysGone ==
    [][\A d \in Ids : Deleted(d) =>
          /\ d \notin dirs'
          /\ (/\ ret'.doc = d
              /\ ret'.op \in {"get_document", "update_document",
                              "set_current_version", "delete_document"})
                 => ret'.exc = "FileNotFoundError"
          /\ ret'.op = "list_documents"
                 => \A i \in 1..Len(ret'.docs) : ret'.docs[i].id # d]_vars

C14_Witness ==
    /\ ret.op = "delete_document" /\ ret.exc = "FileNotFoundError"
    /\ Deleted(ret.doc)

\* C15: update_document, set_current_version and delete_document on one
\* document leave the directory, metadata and payloads of every other
\* document as they were; a branch whose source is gone is still readable.
C15_NoCrossDocumentEffects ==
    [][/\ (/\ ret'.op \in {"update_document", "set_current_version",
                           "delete_document"}
           /\ ret'.exc = "")
          => \A e \in Ids \ {ret'.doc} :
                 /\ (e \in dirs') <=> (e \in dirs)
                 /\ meta'[e] = meta[e]
                 /\ payload'[e] = payload[e]
       /\ \A b \in dirs' :
              (meta'[b].rec.has_branched_from
                  /\ meta'[b].rec.branched_from.doc_id \notin dirs')
                 => GetDocumentResult(dirs', meta', payload', b, None).exc = ""]_vars

C15_Witness ==
    /\ ret.op = "delete_document" /\ ret.exc = ""
    /\ \E b \in dirs : /\ Md(b).has_branched_from
                       /\ Md(b).branched_from.doc_id = ret.doc
                       /\ Md(b).version_count = 2

\* C16: list_documents returns one summary for each existing document and
\* none for any other id, with the version_count and current_version of
\* the document's metadata.
C16_ListMatchesStore ==
    ret.op = "list_documents" =>
        /\ ret.exc = ""
        /\ Len(ret.docs) = Cardinality(dirs)
        /\ \A d \in dirs : \E i \in 1..Len(ret.docs) : ret.docs[i].id = d
        /\ \A i \in 1..Len(ret.docs) :
               /\ ret.docs[i].id \in dirs
               /\ ret.docs[i].version_count = Md(ret.docs[i].id).version_count
               /\ ret.docs[i].current_version = Md(ret.docs[i].id).current_version

C16_Witness ==
    /\ ret.op = "list_documents"
    /\ Len(ret.docs) = 2
    /\ \E i \in 1..2 : /\ ret.docs[i].version_count = 2
                       /\ ret.docs[i].current_version = 1

\* C17: a successful create_branch(d, branch_name, from_version) returns an
\* id that no document had, of a document with version_count =
\* current_version = 1 whose version 1 reads as d's from_version (d's
\* current_version when from_version is omitted), named
\* "<d's name> - <branch_name>", of d's type, and whose branched_from holds
\* d, d's name and the number of the version that was copied.
C17_BranchCopiesSource ==
    [][(ret'.op = "create_branch" /\ ret'.exc = "" /\ clock' # clock) =>
          LET d == ret'.doc
              n == ret'.val
              v == IF ret'.version = None THEN Md(d).current_version
                   ELSE ret'.version
              new == meta'[n].rec
          IN /\ n \notin allocated /\ n \notin dirs /\ n \in dirs'
             /\ meta'[n].kind = "json"
             /\ new.version_count = 1 /\ new.current_version = 1
             /\ GetDocumentResult(dirs', meta', payload', n, 1).exc = ""
             /\ GetDocumentResult(dirs', meta', payload', n, 1).content
                    = Read(d, v).content
             /\ \E branch_name \in BranchNames :
                    new.name = Md(d).name \o " - " \o branch_name
             /\ new.type = Md(d).type
             /\ new.has_branched_from
             /\ new.branched_from =
                    [doc_id |-> d, version |-> v, name |-> Md(d).name]]_vars

C17_Witness ==
    /\ ret.op = "create_branch" /\ ret.exc = "" /\ ret.version = None
    /\ ret.val \in dirs
    /\ Md(ret.val).has_branched_from
    /\ Md(ret.val).branched_from.version = 1
    /\ Md(ret.doc).version_count = 2

(* ------------------------------ merge claims --------------------------- *)
Merged3 == ret.op = "merge_changes" /\ ret.exc = "" /\ ret.mode = "three-way"
LinesOf(d, v) == SplitLines(Read(d, v).content)
\* the three texts of the merge that has just returned
TargetLines == LinesOf(ret.doc, None)
SourceLines == LinesOf(ret.src, ret.version)
AncestorLines == LinesOf(ret.doc, Md(ret.src).branched_from.version)
MergedLines == SplitLines(ret.content)
LineSet(lines) == { lines[n] : n \in 1..Len(lines) }

\* How a side changed the ancestor.  The ancestor's lines are distinct and
\* a side keeps some of them, in order, between lines of its own: a hunk
\* <<i, j>> is a pair of neighbouring kept ancestor lines (0: the start,
\* Len(anc) + 1: the end) between which the side deleted or inserted lines.
\* A hunk touches the gaps and the ancestor lines from the gap after line i
\* to the gap before line j; gap g is slot 2g, line i is slot 2i - 1.
Where(anc, side, i) ==
    IF i = 0 THEN 0
    ELSE IF i = Len(anc) + 1 THEN Len(side) + 1
    ELSE CHOOSE n \in 1..Len(side) : side[n] = anc[i]
KeptWithEnds(anc, side) ==
    { i \in 1..Len(anc) : anc[i] \in LineSet(side) } \cup {0, Len(anc) + 1}
HunksAmong(anc, side, K) ==
    { h \in K \X K :
          /\ h[1] < h[2]
          /\ \A k \in K : ~(h[1] < k /\ k < h[2])
          /\ (h[2] - h[1] > 1 \/ Where(anc, side, h[2]) - Where(anc, side, h[1]) > 1) }
Hunks(anc, side) == HunksAmong(anc, side, KeptWithEnds(anc, side))
Touched(anc, side) == UNION { (2 * h[1])..(2 * (h[2] - 1)) : h \in Hunks(anc, side) }
Introduced(anc, side, h) ==
    SubSeq(side, Where(anc, side, h[1]) + 1, Where(anc, side, h[2]) - 1)

\* C18: a merge that returns ran in three-way mode exactly when the
\* source's lineage (branched_from) names the target, whatever the ancestor
\* content is (empty included), and in two-way mode otherwise.
C18_ThreeWayIffLineageNamesTarget ==
    (ret.op = "merge_changes" /\ ret.exc = "") =>
        (ret.mode = "three-way"
            <=> (/\ Md(ret.src).has_branched_from
                 /\ Md(ret.src).branched_from.doc_id = ret.doc))

\* C19: in three-way mode, when target and source each changed the
\* ancestor and the ancestor slots they touched are disjoint, the merge
\* returns no conflict and every line either side introduced is a line of
\* merged_content.
C19_DisjointEditsMergeCleanly ==
    (/\ Merged3
     /\ Touched(AncestorLines, TargetLines) # {}
     /\ Touched(AncestorLines, SourceLines) # {}
     /\ Touched(AncestorLines, TargetLines) \cap Touched(AncestorLines, SourceLines) = {})
        => /\ Len(ret.conflicts) = 0
           /\ (LineSet(TargetLines) \cup LineSet(SourceLines)) \ LineSet(AncestorLines)
                  \subseteq LineSet(MergedLines)

\* the lines a conflict record holds for one side
SideLines(c, x) == IF "line" \in DOMAIN c THEN <<x>> ELSE x

\* C20: in three-way mode, when target and source each changed the
\* ancestor in one place, the same one, and each put lines of its own
\* there, the merge returns exactly one conflict, whose record holds the
\* target's lines and the source's lines, and merged_content has exactly
\* one block: "<<<<<<< TARGET", the target's lines, "=======", the source's
\* lines, ">>>>>>> SOURCE".
C20_SamePlaceOneConflict ==
    (/\ Merged3
     /\ Cardinality(Hunks(AncestorLines, TargetLines)) = 1
     /\ Hunks(AncestorLines, TargetLines) = Hunks(AncestorLines, SourceLines)
     /\ \A h \in Hunks(AncestorLines, TargetLines) :
            /\ Introduced(AncestorLines, TargetLines, h) # <<>>
            /\ Introduced(AncestorLines, SourceLines, h) # <<>>)
        => \A h \in Hunks(AncestorLines, TargetLines) :
               LET target == Introduced(AncestorLines, TargetLines, h)
                   source == Introduced(AncestorLines, SourceLines, h)
                   block == <<TargetMarker>> \o target \o <<Separator>>
                                \o source \o <<SourceMarker>>
               IN /\ Len(ret.conflicts) = 1
                  /\ SideLines(ret.conflicts[1], ret.conflicts[1].target) = target
                  /\ SideLines(ret.conflicts[1], ret.conflicts[1].source) = source
                  /\ \E k \in 1..Len(MergedLines) :
                         /\ k + Len(block) - 1 <= Len(MergedLines)
                         /\ SubSeq(MergedLines, k, k + Len(block) - 1) = block
                  /\ Cardinality({ n \in 1..Len(MergedLines) :
                                       MergedLines[n] = TargetMarker }) = 1

\* number of times a line occurs, and the places where it does
Count(lines, l) == Cardinality({ n \in 1..Len(lines) : lines[n] = l })
Places(lines, l) == { n \in 1..Len(lines) : lines[n] = l }
\* the ancestor lines both sides kept
BothKept(anc, t, s) ==
    { i \in 1..Len(anc) : anc[i] \in LineSet(t) /\ anc[i] \in LineSet(s) }

\* C21: in three-way mode every ancestor line that both target and source
\* kept occurs exactly once in merged_content, and these lines occur in
\* ancestor order.
C21_KeptAncestorLinesOnceInOrder ==
    Merged3 =>
        /\ \A i \in BothKept(AncestorLines, TargetLines, SourceLines) :
               Count(MergedLines, AncestorLines[i]) = 1
        /\ \A i, j \in BothKept(AncestorLines, TargetLines, SourceLines) :
               i < j => \A m \in Places(MergedLines, AncestorLines[i]),
                           n \in Places(MergedLines, AncestorLines[j]) : m < n

\* the slots of one hunk
HunkSlots(h) == (2 * h[1])..(2 * (h[2] - 1))
\* the hunks of side x that the other side y left alone
AloneHunks(anc, x, y) ==
    { h \in Hunks(anc, x) : HunkSlots(h) \cap Touched(anc, y) = {} }
\* no conflict record holds the line l
InNoConflict(l) ==
    \A n \in 1..Len(ret.conflicts) :
        /\ l \notin LineSet(SideLines(ret.conflicts[n], ret.conflicts[n].target))
        /\ l \notin LineSet(SideLines(ret.conflicts[n], ret.conflicts[n].source))
\* the lines one side put into a hunk the other side left alone are each
\* once in merged_content, after the kept ancestor line before the hunk and
\* before the kept ancestor line after it, and in no conflict record
InsertedInPlace(anc, x, y) ==
    \A h \in AloneHunks(anc, x, y) :
        \A l \in LineSet(Introduced(anc, x, h)) :
            /\ Count(MergedLines, l) = 1
            /\ InNoConflict(l)
            /\ h[1] >= 1 => \A m \in Places(MergedLines, anc[h[1]]),
                               n \in Places(MergedLines, l) : m < n
            /\ h[2] <= Len(anc) => \A m \in Places(MergedLines, l),
                                      n \in Places(MergedLines, anc[h[2]]) : m < n
\* the ancestor lines exactly one side deleted are not in merged_content
DeletedStayOut(anc, t, s) ==
    \A i \in 1..Len(anc) :
        ((anc[i] \in LineSet(t)) # (anc[i] \in LineSet(s)))
            => anc[i] \notin LineSet(MergedLines)

\* C22: in three-way mode an ancestor line that one side deleted and the
\* other kept is not in merged_content, and a line that one side inserted
\* where the other side changed nothing is in merged_content exactly once,
\* between the same neighbouring ancestor lines, and in no conflict.
C22_OneSidedEditsApplied ==
    Merged3 =>
        /\ DeletedStayOut(AncestorLines, TargetLines, SourceLines)
        /\ InsertedInPlace(AncestorLines, TargetLines, SourceLines)
        /\ InsertedInPlace(AncestorLines, SourceLines, TargetLines)

\* what one region of the alignment of target against source gives in
\* merged_content
RegionLines(o, t, s) ==
    IF o.tag = "equal" THEN Slice(t, o.i1, o.i2)
    ELSE IF o.tag = "delete" THEN Slice(t, o.i1, o.i2)
    ELSE IF o.tag = "insert" THEN Slice(s, o.j1, o.j2)
    ELSE <<TargetMarker>> \o Slice(t, o.i1, o.i2) \o <<Separator>>
             \o Slice(s, o.j1, o.j2) \o <<SourceMarker>>
ReplacedRegions(opcodes) == SelectSeq(opcodes, LAMBDA o : o.tag = "replace")
RegionsMerged(opcodes, t, s) ==
    /\ ret.content = Join(Flatten([n \in 1..Len(opcodes) |-> RegionLines(opcodes[n], t, s)]))
    /\ Len(ret.conflicts) = Len(ReplacedRegions(opcodes))
    /\ \A n \in 1..Len(ret.conflicts) :
           /\ DOMAIN ret.conflicts[n] = {"line_range", "target", "source"}
           /\ ret.conflicts[n].line_range
                  = <<ReplacedRegions(opcodes)[n].i1, ReplacedRegions(opcodes)[n].i2>>
           /\ ret.conflicts[n].target
                  = Slice(t, ReplacedRegions(opcodes)[n].i1, ReplacedRegions(opcodes)[n].i2)
           /\ ret.conflicts[n].source
                  = Slice(s, ReplacedRegions(opcodes)[n].j1, ReplacedRegions(opcodes)[n].j2)

\* C23: in two-way mode merged_content is, region by region of the
\* alignment of the target lines against the source lines, the equal lines
\* once, the target-only lines, the source-only lines, and for a replaced
\* region one conflict block; there is one conflict record per replaced
\* region, in order, holding the region's whole target range and whole
\* source range.
C23_TwoWayFollowsAlignment ==
    (ret.op = "merge_changes" /\ ret.exc = "" /\ ret.mode = "two-way")
        => RegionsMerged(GetOpcodes(TargetLines, SourceLines), TargetLines, SourceLines)

C23_Witness ==
    /\ ret.op = "merge_changes" /\ ret.exc = "" /\ ret.mode = "two-way"
    /\ Len(ret.conflicts) = 1
    /\ Len(ret.conflicts[1].target) = 2
    /\ Len(ret.conflicts[1].source) = 1
    /\ Len(SplitLines(ret.content)) > 6

(* ------------------------ VersionController.get_word_diff -------------- *)
RECURSIVE WordsFrom(_, _)
\* str.split(): runs of whitespace separate the words, there is no empty word
WordsFrom(s, cur) ==
    IF s = <<>> THEN (IF cur = <<>> THEN <<>> ELSE <<cur>>)
    ELSE IF IsSpace(Head(s))
         THEN (IF cur = <<>> THEN <<>> ELSE <<cur>>) \o WordsFrom(Tail(s), <<>>)
    ELSE WordsFrom(Tail(s), Append(cur, Head(s)))

Split(s) == WordsFrom(s, <<>>)

Span(type, words) == [type |-> type, words |-> words]

\* the spans of an opcode, a replaced run giving its removed words only
SpansOfNoAdded(o, words1, words2) ==
    IF o.tag = "equal" THEN <<Span("equal", Slice(words1, o.i1, o.i2))>>
    ELSE IF o.tag \in {"replace", "delete"}
    THEN <<Span("removed", Slice(words1, o.i1, o.i2))>>
    ELSE <<Span("added", Slice(words2, o.j1, o.j2))>>

\* the spans one opcode appends to result
SpansOf(o, words1, words2) ==
    IF o.tag = "equal" THEN <<Span("equal", Slice(words1, o.i1, o.i2))>>
    ELSE IF o.tag = "replace"
    THEN <<Span("removed", Slice(words1, o.i1, o.i2)),
           Span("added", Slice(words2, o.j1, o.j2))>>
    ELSE IF o.tag = "delete" THEN <<Span("removed", Slice(words1, o.i1, o.i2))>>
    ELSE IF o.tag = "insert" THEN <<Span("added", Slice(words2, o.j1, o.j2))>>
    ELSE <<>>

RECURSIVE WordSpans(_, _, _)
WordSpans(opcodes, words1, words2) ==
    IF opcodes = <<>> THEN <<>>
    ELSE SpansOf(Head(opcodes), words1, words2)
         \o WordSpans(Tail(opcodes), words1, words2)

WordDiff(words1, words2) == WordSpans(GetOpcodes(words1, words2), words1, words2)

WordDiffRead(called, v1, v2) ==
    IF v1.exc # "" THEN [called EXCEPT !.exc = v1.exc]
    ELSE IF v2.exc # "" THEN [called EXCEPT !.exc = v2.exc]
    ELSE [called EXCEPT !.spans = WordDiff(Split(v1.content), Split(v2.content))]

\* get_word_diff as a function of the store: the exception raised or the
\* list of spans
GetWordDiffResult(ds, m, p, doc_id, version1, version2) ==
    WordDiffRead([NoRet EXCEPT !.op = "get_word_diff", !.doc = doc_id,
                               !.version = version1, !.version2 = version2],
                 GetDocumentResult(ds, m, p, doc_id, version1),
                 GetDocumentResult(ds, m, p, doc_id, version2))

(* ------------------------ difflib.unified_diff -------------------------- *)
\* get_grouped_opcodes: an equal run at either end keeps n lines
ClipFirst(codes, n) ==
    IF codes[1].tag = "equal"
    THEN [codes EXCEPT ![1].i1 = Max(@, codes[1].i2 - n),
                       ![1].j1 = Max(@, codes[1].j2 - n)]
    ELSE codes
ClipLast(codes, n) ==
    IF codes[Len(codes)].tag = "equal"
    THEN [codes EXCEPT ![Len(codes)].i2 = Min(@, codes[Len(codes)].i1 + n),
                       ![Len(codes)].j2 = Min(@, codes[Len(codes)].j1 + n)]
    ELSE codes

RECURSIVE GroupsFrom(_, _, _)
\* a new group starts inside every equal run of more than 2n lines; a last
\* group of one equal run is not yielded
GroupsFrom(codes, group, n) ==
    IF codes = <<>>
    THEN (IF group # <<>> /\ ~(Len(group) = 1 /\ group[1].tag = "equal")
          THEN <<group>> ELSE <<>>)
    ELSE IF Head(codes).tag = "equal" /\ Head(codes).i2 - Head(codes).i1 > n + n
    THEN <<Append(group, [Head(codes) EXCEPT
                              !.i2 = Min(@, Head(codes).i1 + n),
                              !.j2 = Min(@, Head(codes).j1 + n)])>>
         \o GroupsFrom(Tail(codes),
                       <<[Head(codes) EXCEPT
                              !.i1 = Max(@, Head(codes).i2 - n),
                              !.j1 = Max(@, Head(codes).j2 - n)]>>, n)
    ELSE GroupsFrom(Tail(codes), Append(group, Head(codes)), n)

NoChangeCodes == <<[tag |-> "equal", i1 |-> 0, i2 |-> 1, j1 |-> 0, j2 |-> 1]>>

GetGroupedOpcodes(a, b, n) ==
    GroupsFrom(ClipLast(ClipFirst(IF GetOpcodes(a, b) = <<>> THEN NoChangeCodes
                                  ELSE GetOpcodes(a, b), n), n), <<>>, n)

\* _format_range_unified
FormatRangeUnified(start, stop) ==
    IF stop - start = 1 THEN Dec(start + 1)
    ELSE Dec(IF stop - start = 0 THEN start ELSE start + 1)
         \o <<",">> \o Dec(stop - start)

\* '@@ -{} +{} @@'
HunkHeader(first, last) ==
    <<"@", "@", " ", "-">> \o FormatRangeUnified(first.i1, last.i2)
        \o <<" ", "+">> \o FormatRangeUnified(first.j1, last.j2)
        \o <<" ", "@", "@">>

Prefixed(c, x, lo, hi) == [k \in 1..(hi - lo) |-> <<c>> \o At(x, lo + k - 1)]

RECURSIVE GroupLines(_, _, _)
GroupLines(group, a, b) ==
    IF group = <<>> THEN <<>>
    ELSE (IF Head(group).tag = "equal"
          THEN Prefixed(" ", a, Head(group).i1, Head(group).i2)
          ELSE (IF Head(group).tag \in {"replace", "delete"}
                THEN Prefixed("-", a, Head(group).i1, Head(group).i2) ELSE <<>>)
               \o (IF Head(group).tag \in {"replace", "insert"}
                   THEN Prefixed("+", b, Head(group).j1, Head(group).j2) ELSE <<>>))
         \o GroupLines(Tail(group), a, b)

RECURSIVE HunksText(_, _, _)
HunksText(groups, a, b) ==
    IF groups = <<>> THEN <<>>
    ELSE <<HunkHeader(Head(groups)[1], Head(groups)[Len(Head(groups))])>>
         \o GroupLines(Head(groups), a, b)
         \o HunksText(Tail(groups), a, b)

\* list(difflib.unified_diff(a, b, fromfile, tofile, lineterm='', n)): the
\* two header lines come before the first group only
UnifiedDiffOf(groups, a, b, fromfile, tofile) ==
    IF groups = <<>> THEN <<>>
    ELSE << <<"-", "-", "-", " ">> \o fromfile, <<"+", "+", "+", " ">> \o tofile >>
         \o HunksText(groups, a, b)

UnifiedDiff(a, b, fromfile, tofile, n) ==
    UnifiedDiffOf(GetGroupedOpcodes(a, b, n), a, b, fromfile, tofile)

(* ------------------------ DocumentManager.compare_versions ------------- *)
\* n=3 of the unified_diff call
ContextLines == 3

StartsWith(s, prefix) ==
    Len(s) >= Len(prefix) /\ SubSeq(s, 1, Len(prefix)) = prefix

RECURSIVE SplitOnFrom(_, _, _)
\* str.split(sep) with a one-character separator
SplitOnFrom(s, sep, cur) ==
    IF s = <<>> THEN <<cur>>
    ELSE IF Head(s) = sep THEN <<cur>> \o SplitOnFrom(Tail(s), sep, <<>>)
    ELSE SplitOnFrom(Tail(s), sep, Append(cur, Head(s)))

SplitOn(s, sep) == SplitOnFrom(s, sep, <<>>)

\* the hunk a '@@' line opens
NewHunk(parts) ==
    [type |-> "hunk", old_range |-> parts[2], new_range |-> parts[3], lines |-> <<>>]

\* a content line
ParseLine(line) ==
    IF StartsWith(line, <<"-">>) THEN [type |-> "removed", content |-> Tail(line)]
    ELSE IF StartsWith(line, <<"+">>) THEN [type |-> "added", content |-> Tail(line)]
    ELSE [type |-> "context",
          content |-> IF StartsWith(line, <<" ">>) THEN Tail(line) ELSE line]

RECURSIVE ParseFrom(_, _)
\* the loop over diff[2:]; current_change is kept as the last element of
\* changes, where the code appends it when the next hunk opens or at the end
ParseFrom(diff, changes) ==
    IF diff = <<>> THEN changes
    ELSE IF StartsWith(Head(diff), <<"@", "@">>)
    THEN ParseFrom(Tail(diff), Append(changes, NewHunk(SplitOn(Head(diff), " "))))
    ELSE IF changes # <<>>
    THEN ParseFrom(Tail(diff),
                   [changes EXCEPT ![Len(changes)].lines = Append(@, ParseLine(Head(diff)))])
    ELSE ParseFrom(Tail(diff), changes)

ParseDiff(diff) == ParseFrom(SubSeq(diff, 3, Len(diff)), <<>>)

CompareRead(called, v1, v2, version1, version2) ==
    IF v1.exc # "" THEN [called EXCEPT !.exc = v1.exc]
    ELSE IF v2.exc # "" THEN [called EXCEPT !.exc = v2.exc]
    ELSE [called EXCEPT !.hunks =
              ParseDiff(UnifiedDiff(SplitLines(v1.content), SplitLines(v2.content),
                                    <<"v">> \o Dec(version1), <<"v">> \o Dec(version2),
                                    ContextLines))]

\* compare_versions as a function of the store: the exception raised or the
\* list of hunks
CompareVersionsResult(ds, m, p, doc_id, version1, version2) ==
    CompareRead([NoRet EXCEPT !.op = "compare_versions", !.doc = doc_id,
                              !.version = version1, !.version2 = version2],
                GetDocumentResult(ds, m, p, doc_id, version1),
                GetDocumentResult(ds, m, p, doc_id, version2),
                version1, version2)

(* --------------------------- versions of a text ------------------------ *)
\* Texts of up to MaxTextLines lines drawn from two lines, one of them of
\* two words; those of up to MaxEndedLines lines also with a line
\* terminator at their end, so that "\n" (one blank line) is among them.
TextLines == { <<"a">>, <<"x", " ", "a">> }
LinesUpTo(k) == UNION { [1..n -> TextLines] : n \in 0..k }
Texts == { Join(ls) : ls \in LinesUpTo(MaxTextLines) }
         \cup { Join(ls) \o <<LF>> : ls \in LinesUpTo(MaxEndedLines) }

\* version arguments of the two diffs: the versions a document of
\* MaxTextVersions versions can have, out of range while it has fewer
DiffVersions == 1..MaxTextVersions

DiffCreateDocument ==
    \E content \in Texts, name \in Names, doc_type \in Types :
        /\ allocated = {}
        /\ CreateDocumentAs(NextId, content, name, doc_type)

DiffUpdateDocument ==
    \E doc_id \in dirs, content \in Texts :
        /\ meta[doc_id].kind = "json"
        /\ meta[doc_id].rec.version_count < MaxTextVersions
        /\ UpdateDocumentOf(doc_id, content)

\* a document is merged with itself
MergeSelf ==
    \E doc_id \in dirs, source_version \in {None} \cup DiffVersions :
        /\ ret' = MergeChangesResult(dirs, meta, payload, doc_id, doc_id,
                                     source_version)
        /\ UNCHANGED <<store, allocated, clock, written, pc, loc>>

GetWordDiff ==
    \E doc_id \in dirs, version1 \in DiffVersions, version2 \in DiffVersions :
        /\ ret' = GetWordDiffResult(dirs, meta, payload, doc_id, version1, version2)
        /\ UNCHANGED <<store, allocated, clock, written, pc, loc>>

CompareVersions ==
    \E doc_id \in dirs, version1 \in DiffVersions, version2 \in DiffVersions :
        /\ ret' = CompareVersionsResult(dirs, meta, payload, doc_id, version1, version2)
        /\ UNCHANGED <<store, allocated, clock, written, pc, loc>>

NextDiff ==
    \/ DiffCreateDocument
    \/ DiffUpdateDocument
    \/ MergeSelf
    \/ GetWordDiff
    \/ CompareVersions

SpecDiff == Init /\ [][NextDiff]_vars

(* ------------------------------ C24 ------------------------------------ *)
\* C24: merging a document with itself, at its current version, returns no
\* conflict and a merged_content equal to the content of that version,
\* whatever the content is (a line terminator or blank lines at its end
\* included).
C24_SelfMergeIsIdentity ==
    (/\ ret.op = "merge_changes" /\ ret.exc = ""
     /\ ret.src = ret.doc
     /\ ret.version \in {None, Md(ret.doc).current_version})
        => /\ ret.conflicts = <<>>
           /\ ret.content = Read(ret.doc, None).content

(* ------------------------------ C29, C30 ------------------------------- *)
\* the two versions a diff was asked for
FirstContent == Read(ret.doc, ret.version).content
SecondContent == Read(ret.doc, ret.version2).content

RECURSIVE WordsOf(_, _)
\* the words of the spans of the given types, in order
WordsOf(spans, types) ==
    IF spans = <<>> THEN <<>>
    ELSE (IF Head(spans).type \in types THEN Head(spans).words ELSE <<>>)
         \o WordsOf(Tail(spans), types)

\* C29: the spans of a word diff are of type equal, added or removed; the
\* words of its equal and added spans, in order, are the words of version 2,
\* and the words of its equal and removed spans are the words of version 1.
C29_WordDiffReconstructs ==
    (ret.op = "get_word_diff" /\ ret.exc = "")
        => /\ \A k \in 1..Len(ret.spans) :
                  ret.spans[k].type \in {"equal", "added", "removed"}
           /\ WordsOf(ret.spans, {"equal", "added"}) = Split(SecondContent)
           /\ WordsOf(ret.spans, {"equal", "removed"}) = Split(FirstContent)

\* a word diff of two versions of several words each: a word of the
\* first is replaced by another and a run of several words is kept
C29_Witness ==
    /\ ret.op = "get_word_diff" /\ ret.exc = ""
    /\ ret.version # ret.version2
    /\ \E k \in 1..(Len(ret.spans) - 1) :
           /\ ret.spans[k].type = "removed"
           /\ ret.spans[k + 1].type = "added"
    /\ \E k \in 1..Len(ret.spans) :
           ret.spans[k].type = "equal" /\ Len(ret.spans[k].words) > 1

\* version 2 is version 1 with exactly one line replaced
OneLineReplaced(lines1, lines2) ==
    /\ Len(lines1) = Len(lines2)
    /\ Cardinality({ k \in 1..Len(lines1) : lines1[k] # lines2[k] }) = 1
Replaced(lines1, lines2) == CHOOSE k \in 1..Len(lines1) : lines1[k] # lines2[k]
OfType(lines, type) == SelectSeq(lines, LAMBDA l : l.type = type)

\* C30: the line diff of a version against one that replaces exactly one of
\* its lines is one hunk, with one removed entry (the old line), one added
\* entry (the new line) and context entries; the diff of two versions of
\* identical content has no hunk; every hunk has an added or a removed entry.
C30_LineDiffOfOneReplacedLine ==
    (ret.op = "compare_versions" /\ ret.exc = "")
        => /\ OneLineReplaced(SplitLines(FirstContent), SplitLines(SecondContent))
                => /\ Len(ret.hunks) = 1
                   /\ OfType(ret.hunks[1].lines, "removed") =
                         << [type |-> "removed",
                             content |-> SplitLines(FirstContent)[
                                 Replaced(SplitLines(FirstContent),
                                          SplitLines(SecondContent))]] >>
                   /\ OfType(ret.hunks[1].lines, "added") =
                         << [type |-> "added",
                             content |-> SplitLines(SecondContent)[
                                 Replaced(SplitLines(FirstContent),
                                          SplitLines(SecondContent))]] >>
                   /\ \A k \in 1..Len(ret.hunks[1].lines) :
                          ret.hunks[1].lines[k].type \in {"removed", "added", "context"}
           /\ FirstContent = SecondContent => ret.hunks = <<>>
           /\ \A h \in 1..Len(ret.hunks) :
                  \E k \in 1..Len(ret.hunks[h].lines) :
                      ret.hunks[h].lines[k].type \in {"added", "removed"}

(* ------------------------------ C25, C26 ------------------------------- *)
RECURSIVE BlocksFrom(_, _)
\* the blocks resolve_conflict finds in lines from line i on, as it scans
BlocksFrom(lines, i) ==
    IF i >= Len(lines) THEN <<>>
    ELSE IF At(lines, i) = TargetMarker /\ BlockFound(ScanBlock(lines, i + 1, None))
    THEN << [conflict_start |-> i,
             conflict_end |-> ScanBlock(lines, i + 1, None).conflict_end] >>
         \o BlocksFrom(lines, ScanBlock(lines, i + 1, None).conflict_end + 1)
    ELSE BlocksFrom(lines, i + 1)

\* the id resolve_conflict looks a block up under
BlockId(b) == ConflictId(b.conflict_start, b.conflict_end)

\* what a descriptor says of its block: the line it names (line, or the
\* start of line_range) and the lines of its two sides; the block is that
\* many lines and three delimiter lines
DescriptorStart(c) == IF "line" \in DOMAIN c THEN c.line ELSE c.line_range[1]
DescriptorSides(c) == IF "line" \in DOMAIN c THEN 2 ELSE Len(c.target) + Len(c.source)
DescriptorId(c) ==
    ConflictId(DescriptorStart(c), DescriptorStart(c) + DescriptorSides(c) + 2)

\* C25: a merge returns as many descriptors as resolve_conflict finds blocks
\* in merged_content, and the i-th descriptor gives the id of the i-th
\* block: the block starts at the line the descriptor names and ends after
\* the lines of its two sides and the delimiter lines.
C25_DescriptorGivesConflictId ==
    (ret.op = "merge_changes" /\ ret.exc = "")
        => /\ Len(ret.conflicts) = Len(BlocksFrom(SplitLines(ret.content), 0))
           /\ \A i \in 1..Len(ret.conflicts) :
                  DescriptorId(ret.conflicts[i])
                      = BlockId(BlocksFrom(SplitLines(ret.content), 0)[i])

\* C26: resolve_conflict of a content that merge_changes returned, with no
\* resolution, returns that content unchanged.
C26_ResolveNothingIsIdentity ==
    (ret.op = "resolve_conflict" /\ ret.exc = "" /\ ret.resolution = NoResolution)
        => ret.content = ret.arg

(* --------------------------- contents to resolve ----------------------- *)
\* Contents put together from up to MaxPieces pieces: an ordinary line, a
\* whole conflict block (either side empty or of one line), or a block cut
\* short (no closing marker, no separator, or neither).
WholeBlocks ==
    { <<TargetMarker>> \o t \o <<Separator>> \o s \o <<SourceMarker>> :
          t \in {<<>>, << <<"a">> >>}, s \in {<<>>, << <<"b">> >>} }
CutBlocks ==
    { <<TargetMarker, <<"a">>>>,
      <<TargetMarker, <<"a">>, Separator, <<"b">>>>,
      <<TargetMarker, <<"a">>, SourceMarker>> }
Pieces == { << <<"a">> >> } \cup WholeBlocks \cup CutBlocks
ResolveInputs == { Flatten(ps) : ps \in UNION { [1..n -> Pieces] : n \in 0..MaxPieces } }

\* the ids a caller can think of: from an opening line to the next closing
\* line
ClosingAfter(lines, s) ==
    { k \in (s + 1)..(Len(lines) - 1) : At(lines, k) = SourceMarker }
CandidateIds(lines) ==
    { ConflictId(s, FirstOf(ClosingAfter(lines, s))) :
          s \in { k \in 0..(Len(lines) - 1) :
                     At(lines, k) = TargetMarker /\ ClosingAfter(lines, k) # {} } }
Choices == {Target, Source, Both, Custom}
CustomText == <<"c">>

\* the dict of a choice for each id of ids; a custom choice comes with its text
ResolutionOf(choice) ==
    [k \in DOMAIN choice \cup { CustomKey(id) : id \in { i \in DOMAIN choice : choice[i] = Custom } } |->
        IF k \in DOMAIN choice THEN choice[k] ELSE CustomText]
\* resolutions of up to MaxResolved ids
Resolutions(lines) ==
    { ResolutionOf(choice) :
        choice \in UNION { [ids -> Choices] :
                             ids \in { I \in SUBSET CandidateIds(lines) :
                                           Cardinality(I) <= MaxResolved } } }

\* a call of resolve_conflict about to be made
InitResolve ==
    /\ dirs = {}
    /\ meta = [d \in Ids |-> NoMeta]
    /\ payload = [d \in Ids |-> [fn \in FileNames |-> NoFile]]
    /\ allocated = {}
    /\ clock = 1
    /\ written = [d \in Ids |-> <<>>]
    /\ pc = [w \in Writers |-> "idle"]
    /\ loc = [w \in Writers |-> NoLoc]
    /\ \E lines \in ResolveInputs :
           \E resolution \in Resolutions(lines) :
               ret = [NoRet EXCEPT !.arg = Join(lines), !.resolution = resolution]

ResolveConflict ==
    /\ ret.op = "none"
    /\ ret' = ResolveConflictResult(ret.arg, ret.resolution)
    /\ UNCHANGED <<store, allocated, clock, written, pc, loc>>

NextResolve == ResolveConflict

SpecResolve == InitResolve /\ [][NextResolve]_vars

(* ------------------------------ C27, C28 ------------------------------- *)
IsDelimiter(line) == line \in {TargetMarker, Separator, SourceMarker}
\* the first delimiter line at or after line i, Len(lines) if there is none
NextDelimiter(lines, i) ==
    FirstOf({ k \in i..(Len(lines) - 1) : IsDelimiter(At(lines, k)) } \cup {Len(lines)})
\* the separator and the closing line of the block that opens at line i
MiddleOf(lines, i) == NextDelimiter(lines, i + 1)
EndOf(lines, i) == NextDelimiter(lines, MiddleOf(lines, i) + 1)
\* line i opens a whole block: ordinary lines, "=======", ordinary lines,
\* ">>>>>>> SOURCE"
WholeBlockAt(lines, i) ==
    /\ At(lines, i) = TargetMarker
    /\ MiddleOf(lines, i) < Len(lines)
    /\ At(lines, MiddleOf(lines, i)) = Separator
    /\ EndOf(lines, i) < Len(lines)
    /\ At(lines, EndOf(lines, i)) = SourceMarker

RECURSIVE WellFormedFrom(_, _)
\* from line i on there are only ordinary lines and whole blocks
WellFormedFrom(lines, i) ==
    IF i >= Len(lines) THEN TRUE
    ELSE IF ~IsDelimiter(At(lines, i)) THEN WellFormedFrom(lines, i + 1)
    ELSE WholeBlockAt(lines, i) /\ WellFormedFrom(lines, EndOf(lines, i) + 1)

\* what the caller asked for the block from line i to line e
AskedFor(lines, i, m, e, resolution) ==
    IF ConflictId(i, e) \notin DOMAIN resolution THEN Slice(lines, i, e + 1)
    ELSE IF resolution[ConflictId(i, e)] = Target THEN Slice(lines, i + 1, m)
    ELSE IF resolution[ConflictId(i, e)] = Source THEN Slice(lines, m + 1, e)
    ELSE IF resolution[ConflictId(i, e)] = Both
    THEN Slice(lines, i + 1, m) \o Slice(lines, m + 1, e)
    ELSE <<resolution[CustomKey(ConflictId(i, e))]>>

RECURSIVE ExpectedFrom(_, _, _)
\* the lines of a well-formed content after its blocks are replaced
ExpectedFrom(lines, i, resolution) ==
    IF i >= Len(lines) THEN <<>>
    ELSE IF ~IsDelimiter(At(lines, i))
    THEN <<At(lines, i)>> \o ExpectedFrom(lines, i + 1, resolution)
    ELSE AskedFor(lines, i, MiddleOf(lines, i), EndOf(lines, i), resolution)
         \o ExpectedFrom(lines, EndOf(lines, i) + 1, resolution)

\* the ids of the whole blocks of a content
WholeBlockIds(lines) ==
    { ConflictId(i, EndOf(lines, i)) :
          i \in { k \in 0..(Len(lines) - 1) : WholeBlockAt(lines, k) } }

\* C27: in a content of ordinary lines and well-formed blocks, each block
\* is replaced by what resolutions says under its id (target: its target
\* lines; source: its source lines; both: target lines then source lines;
\* custom: the text given), a block without an entry is copied with its
\* three delimiter lines, and the other lines are copied in order.
C27_ResolveReplacesEachBlock ==
    (/\ ret.op = "resolve_conflict"
     /\ WellFormedFrom(SplitLines(ret.arg), 0))
        => /\ ret.exc = ""
           /\ ret.content = Join(ExpectedFrom(SplitLines(ret.arg), 0, ret.resolution))

\* two blocks with lines between them, the first resolved to both sides and
\* the second left without an entry
C27_Witness ==
    /\ ret.op = "resolve_conflict" /\ ret.exc = ""
    /\ WellFormedFrom(SplitLines(ret.arg), 0)
    /\ Cardinality(WholeBlockIds(SplitLines(ret.arg))) = 2
    /\ Cardinality(DOMAIN ret.resolution \cap WholeBlockIds(SplitLines(ret.arg))) = 1
    /\ \E id \in DOMAIN ret.resolution : ret.resolution[id] = Both
    /\ Len(SplitLines(ret.content)) = Len(SplitLines(ret.arg)) - 3
    /\ SplitLines(ret.content)[1] = <<"a">>
    /\ SplitLines(ret.content)[2] = <<"b">>

\* line i opens a block that is cut short: the next delimiter line is not
\* "=======", or the one after it is not ">>>>>>> SOURCE"
Truncated(lines) ==
    \E i \in 0..(Len(lines) - 1) :
        At(lines, i) = TargetMarker /\ ~WholeBlockAt(lines, i)

\* C28: resolve_conflict of a content with an opening line whose block is
\* cut short (no separator, no closing line, or another opening line
\* before it is closed) fails with MalformedConflictError.
C28_TruncatedBlockFails ==
    (ret.op = "resolve_conflict" /\ Truncated(SplitLines(ret.arg)))
        => ret.exc = "MalformedConflictError"

(* ------------------------ VersionController.get_diff_html -------------- *)
\* f"Version {version}"
VersionDesc(version) == <<"V", "e", "r", "s", "i", "o", "n", " ">> \o Dec(version)

\* difflib.HtmlDiff().make_file(lines1, lines2, fromdesc, todesc,
\* context=True, numlines=3): the page is kept as the four values it is
\* rendered from
MakeFile(lines1, lines2, fromdesc, todesc) == <<fromdesc, todesc, lines1, lines2>>

DiffHtmlRead(called, v1, v2, version1, version2) ==
    IF v1.exc # "" THEN [called EXCEPT !.exc = v1.exc]
    ELSE IF v2.exc # "" THEN [called EXCEPT !.exc = v2.exc]
    ELSE [called EXCEPT !.html =
              MakeFile(SplitLines(v1.content), SplitLines(v2.content),
                       VersionDesc(version1), VersionDesc(version2))]

\* get_diff_html as a function of the store: the exception raised or the
\* page
GetDiffHtmlResult(ds, m, p, doc_id, version1, version2) ==
    DiffHtmlRead([NoRet EXCEPT !.op = "get_diff_html", !.doc = doc_id,
                               !.version = version1, !.version2 = version2],
                 GetDocumentResult(ds, m, p, doc_id, version1),
                 GetDocumentResult(ds, m, p, doc_id, version2),
                 version1, version2)

GetDiffHtml ==
    \E doc_id \in dirs, version1 \in DiffVersions, version2 \in DiffVersions :
        /\ ret' = GetDiffHtmlResult(dirs, meta, payload, doc_id, version1, version2)
        /\ UNCHANGED <<store, allocated, clock, written, pc, loc>>

(* ---------------------- writes, merges and diffs ------------------------ *)
\* a merge that also stores merged_content as a new version of the target
MergeStoredSaving ==
    \E doc_id \in Ids, source_doc_id \in dirs,
       source_version \in {None} \cup DiffVersions :
        /\ ret' = MergeChangesResult(dirs, meta, payload, doc_id, source_doc_id,
                                     source_version)
        /\ IF ret'.exc = "" /\ clock <= MaxClock
              /\ NewVersion(meta[doc_id].rec) \in Versions
           THEN /\ payload' = WritePayload(payload, doc_id,
                                           <<NewVersion(meta[doc_id].rec),
                                             meta[doc_id].rec.type>>, ret'.content)
                /\ meta' = DumpMeta(meta, doc_id,
                                    UpdatedMetadata(meta[doc_id].rec,
                                                    NewVersion(meta[doc_id].rec),
                                                    "", clock))
                /\ clock' = clock + 1
                /\ UNCHANGED <<dirs, allocated, written, pc, loc>>
           ELSE UNCHANGED <<store, allocated, clock, written, pc, loc>>

\* merge_changes from a stored document into any document
MergeStored ==
    \E doc_id \in Ids, source_doc_id \in dirs,
       source_version \in {None} \cup DiffVersions :
        /\ ret' = MergeChangesResult(dirs, meta, payload, doc_id, source_doc_id,
                                     source_version)
        /\ UNCHANGED <<store, allocated, clock, written, pc, loc>>

\* the calls that write the store and the merge, resolve and diff calls,
\* in any order
NextAll ==
    \/ CreateDocument
    \/ UpdateDocument
    \/ DeleteDocument
    \/ SetCurrentVersion
    \/ CreateBranch
    \/ MergeStored
    \/ ResolveMerged
    \/ GetWordDiff
    \/ CompareVersions
    \/ GetDiffHtml

SpecAll == Init /\ [][NextAll]_vars

(* ------------------- version numbers and the pointer ------------------- *)
\* C31: a successful update_document on a document, also one whose
\* current_version was moved below version_count by set_current_version,
\* returns version_count + 1, writes a payload file that did not exist
\* before, leaves every payload that existed as it was, and the versions
\* list never holds a version number twice.
C31_AppendNeverReusesVersionNumber ==
    [][(ret'.op = "update_document" /\ ret'.exc = "" /\ clock' # clock) =>
          LET d == ret'.doc
              fn == <<ret'.val, Md(d).type>>
          IN /\ ret'.val = Md(d).version_count + 1
             /\ ~payload[d][fn].exists
             /\ payload'[d][fn].exists
             /\ \A e \in dirs : \A f \in FileNames :
                    payload[e][f].exists => payload'[e][f] = payload[e][f]
             /\ meta'[d].rec.version_count = ret'.val
             /\ \A i, j \in 1..Len(meta'[d].rec.versions) :
                    meta'[d].rec.versions[i].version
                        = meta'[d].rec.versions[j].version => i = j]_vars

\* the third version of the only document ever created, appended after a
\* set_current_version on it took the tick between versions 2 and 3
C31_Witness ==
    /\ ret.op = "update_document" /\ ret.exc = "" /\ ret.val = 3
    /\ Cardinality(allocated) = 1
    /\ Live(ret.doc)
    /\ Len(Md(ret.doc).versions) = 3
    /\ Md(ret.doc).versions[3].timestamp = Md(ret.doc).versions[2].timestamp + 2
    /\ Md(ret.doc).current_version = 3


\* C32: along every sequence of update_document, set_current_version,
\* delete_document, create_branch, merge_changes, resolve_conflict and the
\* diff calls, the version_count of a document that stays live never
\* decreases, and it changes only in a successful update_document on that
\* document, by exactly one.
C32_VersionCountOnlyGrowsByAppend ==
    [][\A d \in Ids :
          (Live(d) /\ d \in dirs' /\ meta'[d].kind = "json") =>
              /\ meta'[d].rec.version_count >= Md(d).version_count
              /\ meta'[d].rec.version_count # Md(d).version_count =>
                    /\ ret'.op = "update_document"
                    /\ ret'.exc = ""
                    /\ ret'.doc = d
                    /\ meta'[d].rec.version_count = Md(d).version_count + 1]_vars

\* a merge returned for a target that was updated and then set back to its
\* first version, from a branch of it
C32_Witness ==
    /\ ret.op = "merge_changes" /\ ret.exc = ""
    /\ Live(ret.doc) /\ Live(ret.src)
    /\ Md(ret.doc).version_count = 2
    /\ Md(ret.doc).current_version = 1
    /\ Md(ret.src).has_branched_from
    /\ Md(ret.src).branched_from.doc_id = ret.doc


\* C33: merge_changes, resolve_conflict, compare_versions, get_word_diff
\* and get_diff_html, returning or raising, leave every directory, metadata
\* file and payload as it was and hand out no document id: no version and
\* no document is created.
C33_MergeResolveAndDiffsOnlyRead ==
    [][ret'.op \in {"merge_changes", "resolve_conflict", "compare_versions",
                    "get_word_diff", "get_diff_html"}
          => /\ dirs' = dirs
             /\ meta' = meta
             /\ payload' = payload
             /\ allocated' = allocated]_vars

\* get_diff_html returned the page of versions 1 and 2 of a document
C33_Witness ==
    /\ ret.op = "get_diff_html" /\ ret.exc = ""
    /\ ret.version = 1 /\ ret.version2 = 2
    /\ ret.html = MakeFile(SplitLines(Read(ret.doc, 1).content),
                           SplitLines(Read(ret.doc, 2).content),
                           VersionDesc(1), VersionDesc(2))
    /\ Md(ret.doc).version_count >= 2


(* ------------------------------ lineage -------------------------------- *)
\* C39: a successful update_document or set_current_version on a document
\* that carries a branched_from entry leaves that entry as create_branch
\* wrote it, and a merge of the branch into the document it names that
\* returned before the call returns after it in the same mode.
C39_LineageKeptByUpdateAndSetCurrent ==
    [][(/\ ret'.op \in {"update_document", "set_current_version"}
        /\ ret'.exc = "" /\ clock' # clock
        /\ Md(ret'.doc).has_branched_from) =>
          LET d == ret'.doc
              t == Md(d).branched_from.doc_id
          IN /\ meta'[d].kind = "json"
             /\ meta'[d].rec.has_branched_from
             /\ meta'[d].rec.branched_from = Md(d).branched_from
             /\ MergeChangesResult(dirs, meta, payload, t, d, None).exc = "" =>
                  /\ MergeChangesResult(dirs', meta', payload', t, d, None).exc = ""
                  /\ MergeChangesResult(dirs', meta', payload', t, d, None).mode
                       = MergeChangesResult(dirs, meta, payload, t, d, None).mode]_vars

\* a branch that got a second version and was then set back to its first
\* one still names the document and version it was branched from, and the
\* merge into that document is three-way
C39_Witness ==
    /\ ret.op = "set_current_version" /\ ret.exc = "" /\ ret.version = 1
    /\ Live(ret.doc)
    /\ Md(ret.doc).has_branched_from
    /\ Md(ret.doc).version_count = 2
    /\ Md(ret.doc).current_version = 1
    /\ Md(ret.doc).branched_from.version = 1
    /\ Live(Md(ret.doc).branched_from.doc_id)
    /\ MergeChangesResult(dirs, meta, payload, Md(ret.doc).branched_from.doc_id,
                          ret.doc, None).mode = "three-way"


(* ------------------- resolve_conflict, call after call ----------------- *)
\* a value resolve_conflict has no branch for
Other == <<"o", "t", "h", "e", "r">>

\* an entry for one id: one of the four choices (custom with its text, or
\* without it) or another value
EntriesFor(id) ==
    { ResolutionOf([i \in {id} |-> choice]) : choice \in Choices }
        \cup { [i \in {id} |-> choice] : choice \in {Custom, Other} }

\* the dicts of the first call: nothing, or one entry for an id of the
\* content
FirstResolutions(lines) ==
    {NoResolution} \cup UNION { EntriesFor(id) : id \in CandidateIds(lines) }

\* the dicts of a later call: nothing, or one entry for an id of the
\* content first given or of the content now at hand
LaterResolutions(first, lines) ==
    {NoResolution}
        \cup UNION { EntriesFor(id) : id \in CandidateIds(first) \cup CandidateIds(lines) }

\* a block whose target side is one empty line, alone or after a line
EmptyLineBlock == <<TargetMarker, <<>>, Separator, <<"b">>, SourceMarker>>
AgainInputs ==
    ResolveInputs \cup { before \o EmptyLineBlock : before \in {<<>>, << <<"a">> >>} }

InitResolveAgain ==
    /\ dirs = {}
    /\ meta = [d \in Ids |-> NoMeta]
    /\ payload = [d \in Ids |-> [fn \in FileNames |-> NoFile]]
    /\ allocated = {}
    /\ clock = 1
    /\ written = [d \in Ids |-> <<>>]
    /\ pc = [w \in Writers |-> "idle"]
    /\ loc = [w \in Writers |-> NoLoc]
    /\ \E lines \in AgainInputs :
           \E resolution \in FirstResolutions(lines) :
               ret = [NoRet EXCEPT !.arg = Join(lines), !.resolution = resolution]

\* the content resolve_conflict returned is given to it again; the caller
\* keeps what the call before was given
ResolveAgain ==
    /\ ret.op = "resolve_conflict" /\ ret.exc = "" /\ ret.before = <<>>
    /\ \E resolution \in LaterResolutions(SplitLines(ret.arg), SplitLines(ret.content)) :
           ret' = [ResolveConflictResult(ret.content, resolution)
                       EXCEPT !.before = <<ret.arg, ret.resolution>>]
    /\ UNCHANGED <<store, allocated, clock, written, pc, loc>>

NextResolveAgain ==
    \/ ResolveConflict
    \/ ResolveAgain

SpecResolveAgain == InitResolveAgain /\ [][NextResolveAgain]_vars


\* the dicts that give one of the four choices for one whole block of lines
ChoicesForOneBlock(lines) ==
    { ResolutionOf([i \in {id} |-> choice]) :
          id \in WholeBlockIds(lines), choice \in Choices }

\* C34: for a content m of ordinary lines and well-formed blocks and two
\* dicts r1 and r2 that each resolve one block of m, not the same one,
\* resolve_conflict(resolve_conflict(m, r1), r2) is
\* resolve_conflict(m, r1 and r2 together): the id of a block of m still
\* addresses it after another block was resolved.
C34_PartialResolutionComposes ==
    (/\ ret.op = "resolve_conflict" /\ ret.before # <<>>
     /\ WellFormedFrom(SplitLines(ret.before[1]), 0)
     /\ ret.before[2] \in ChoicesForOneBlock(SplitLines(ret.before[1]))
     /\ ret.resolution \in ChoicesForOneBlock(SplitLines(ret.before[1]))
     /\ DOMAIN ret.before[2] \cap DOMAIN ret.resolution = {})
        => /\ ret.exc = ""
           /\ ret.content
                = ResolveConflictResult(ret.before[1],
                                        ret.before[2] @@ ret.resolution).content


\* the block of lines with this id, when it is a whole block
BlocksWithId(lines, id) ==
    { s \in 0..(Len(lines) - 1) :
          WholeBlockAt(lines, s) /\ ConflictId(s, EndOf(lines, s)) = id }

\* content begins with the lines kept, as whole lines
BeginsWithLines(content, kept) ==
    \/ kept = <<>>
    \/ /\ Len(content) >= Len(Join(kept))
       /\ SubSeq(content, 1, Len(Join(kept))) = Join(kept)
       /\ (Len(content) = Len(Join(kept)) \/ content[Len(Join(kept)) + 1] = LF)

\* C35: when a call replaced a whole block by its target lines, its source
\* lines or both, every later call that returns, whatever its dict, returns
\* a content in which the lines before the block, resolved for themselves,
\* are followed by the replacing lines as they were; and when the replaced
\* block was the only delimiter lines of the content, the later call
\* returns what it was given.
C35_ResolvedStaysResolved ==
    (/\ ret.op = "resolve_conflict" /\ ret.before # <<>> /\ ret.exc = "")
        => \A id \in DOMAIN ret.before[2] :
             \A s \in BlocksWithId(SplitLines(ret.before[1]), id) :
               LET lines == SplitLines(ret.before[1])
                   e == EndOf(lines, s)
                   chosen == AskedFor(lines, s, MiddleOf(lines, s), e, ret.before[2])
               IN (/\ ret.before[2][id] \in {Target, Source, Both}
                   /\ ret.arg = Join(Slice(lines, 0, s) \o chosen
                                         \o Slice(lines, e + 1, Len(lines))))
                     => /\ BeginsWithLines(
                              ret.content,
                              ResolveFrom(Slice(lines, 0, s), 0, ret.resolution,
                                          <<>>).result \o chosen)
                        /\ (\A k \in 0..(Len(lines) - 1) :
                                IsDelimiter(At(lines, k)) => k \in s..e)
                              => ret.content = ret.arg


\* what may stand for the whole block from line s of lines: its target
\* lines, its source lines, both, the custom text given for it, or the
\* block itself
Replacements(lines, s, resolution) ==
    LET m == MiddleOf(lines, s)
        e == EndOf(lines, s)
    IN { Slice(lines, s + 1, m), Slice(lines, m + 1, e),
         Slice(lines, s + 1, m) \o Slice(lines, m + 1, e),
         Slice(lines, s, e + 1) }
       \cup { <<resolution[k]>> : k \in {CustomKey(ConflictId(s, e))} \cap DOMAIN resolution }

\* C38: for a content of ordinary lines and well-formed blocks and a dict
\* with an entry for one block, whatever the value of the entry (another
\* value than the four choices and custom without its text included),
\* resolve_conflict raises or returns the content with the block replaced
\* by its target lines, its source lines, both, the custom text or itself.
C38_ResolveNeverDropsBothSides ==
    (/\ ret.op = "resolve_conflict" /\ ret.before = <<>>
     /\ WellFormedFrom(SplitLines(ret.arg), 0))
        => \A id \in DOMAIN ret.resolution :
             \A s \in BlocksWithId(SplitLines(ret.arg), id) :
               \/ ret.exc # ""
               \/ \E with \in Replacements(SplitLines(ret.arg), s, ret.resolution) :
                    ret.content
                      = Join(Slice(SplitLines(ret.arg), 0, s) \o with
                             \o Slice(SplitLines(ret.arg),
                                      EndOf(SplitLines(ret.arg), s) + 1,
                                      Len(SplitLines(ret.arg))))


(* --------------------- one side left as the ancestor ------------------- *)
\* C36: a three-way merge whose target is the ancestor returns no conflict
\* and the source's lines, and one whose source is the ancestor returns no
\* conflict and the target's lines.
C36_UnchangedSideGivesOtherSide ==
    Merged3 =>
        /\ TargetLines = AncestorLines =>
               (ret.conflicts = <<>> /\ MergedLines = SourceLines)
        /\ SourceLines = AncestorLines =>
               (ret.conflicts = <<>> /\ MergedLines = TargetLines)

\* C37: every line of the merged_content a merge returns is "<<<<<<<
\* TARGET", "=======", ">>>>>>> SOURCE" or a line of the target, of the
\* source or, in three-way mode, of the ancestor, and so is every line a
\* conflict record holds.
C37_MergeInventsNoText ==
    (ret.op = "merge_changes" /\ ret.exc = "") =>
        LET known == LineSet(TargetLines) \cup LineSet(SourceLines)
                        \cup (IF ret.mode = "three-way"
                              THEN LineSet(AncestorLines) ELSE {})
        IN /\ \A n \in 1..Len(MergedLines) :
                  IsDelimiter(MergedLines[n]) \/ MergedLines[n] \in known
           /\ \A n \in 1..Len(ret.conflicts) :
                  /\ LineSet(SideLines(ret.conflicts[n], ret.conflicts[n].target))
                        \subseteq known
                  /\ LineSet(SideLines(ret.conflicts[n], ret.conflicts[n].source))
                        \subseteq known

====
